---- MODULE Spec2Model ----
(***************************************************************************)
(* A model of pstore: an append-only, memory-mapped store.                 *)
(*                                                                         *)
(* The store is modelled at the level of the objects written to it: the    *)
(* variable mem maps the store address of every object that was written    *)
(* to [kind, size, val], where val (a sequence of integers) stands for the *)
(* object's bytes.  Addresses and sizes are byte counts and keep the       *)
(* program's values (4 MiB segments, 8 byte addresses).                    *)
(***************************************************************************)
EXTENDS Integers, Sequences, FiniteSets, TLC

(***************************************************************************)
(* Bounds of the model.                                                    *)
(***************************************************************************)
MaxSegments == 3    \* the file never grows beyond this many segments
MaxTxns == 2        \* transactions begun, over all processes
MaxOps == 2         \* allocations and string additions made, over all transactions
NumViews == 3       \* heap-resident string views a caller may add

(***************************************************************************)
(* Program constants.                                                      *)
(***************************************************************************)
min_region_size == 4194304
segment_size == 4194304
address_size == 8
in_heap_mask == 1
leader_size == 32
trailer_size == 88
header_block_size == 24
page_size == 4096

Procs == {"A", "B"}
NoProc == "none"

Max(a, b) == IF a >= b THEN a ELSE b
Min(a, b) == IF a <= b THEN a ELSE b

(***************************************************************************)
(* Heap-resident string views.  View v lives at heap address               *)
(* HeapAddr(v) (an even number: the constructor of indirect_string asserts *)
(* that the least significant bit of the pointer is clear) and its         *)
(* characters are ViewChars(v).  Views 1 and 2 have equal contents, and so  *)
(* have views 3 and 4, ...                                                 *)
(***************************************************************************)
Views == 1..NumViews
StringOf(i) == [k \in 1..i |-> 64 + i]
ViewChars(v) == StringOf((v + 1) \div 2)
HeapAddr(v) == 16 * v
HeapDeref(h) == ViewChars(h \div 16)

(***************************************************************************)
(* aligned.hpp                                                             *)
(***************************************************************************)
calc_alignment_none(v, align) == 0
calc_alignment(v, align) ==
    IF align = 0 THEN 0 ELSE (((v + align - 1) \div align) * align) - v

(***************************************************************************)
(* varint.hpp                                                              *)
(***************************************************************************)
\* A std::uint64_t is the set of the positions of its one bits, bit 0 being the
\* least significant: the operators below are the machine's, at that width.
uint64_bits == 64
Zero == {}
AllOnes == 0..(uint64_bits - 1)

\* std::uint64_t{n} for a natural n that fits 31 bits, and the way back.
uint64(n) == {i \in 0..30 : (n \div (2 ^ i)) % 2 = 1}
RECURSIVE Value(_)
Value(w) ==
    IF w = {} THEN 0
    ELSE LET i == CHOOSE j \in w : TRUE IN (2 ^ i) + Value(w \ {i})

\* x << n and x >> n
shl(w, n) == {i + n : i \in {j \in w : j + n < uint64_bits}}
shr(w, n) == {i - n : i \in {j \in w : j >= n}}

\* x - 1, which wraps round at zero
minus_one(w) ==
    IF w = {} THEN AllOnes
    ELSE LET low == CHOOSE i \in w : \A j \in w : i <= j
         IN  (w \ {low}) \cup 0..(low - 1)

\* bit_count::clz and bit_count::ctz, which are undefined for zero
clz(w) == (uint64_bits - 1) - (CHOOSE i \in w : \A j \in w : j <= i)
ctz(w) == CHOOSE i \in w : \A j \in w : i <= j

encoded_size(x) ==
    IF \E i \in x : i >= 7 * 8 THEN 9
    ELSE LET bits == uint64_bits - clz(x \cup {0})
         IN  ((bits - 1) \div 7) + 1

\* The n low bytes of x, least significant first: *(out++) = x & 0xFF; x >>= 8.
LowBytes(x, n) == [i \in 1..n |-> Value(shr(x, 8 * (i - 1)) \cap 0..7)]

ByteAt(bytes, i) == IF i \in DOMAIN bytes THEN bytes[i] ELSE 0

\* varint::encode: the number of bytes is held in the low bits of the first.
encode(x) ==
    LET bits == uint64_bits - clz(x \cup {0})
        bytes == ((bits - 1) \div 7) + 1
    IN  IF bits > 56 THEN <<0>> \o LowBytes(x, 8)
        ELSE LowBytes(shl(shl(x, 1) \cup {0}, bytes - 1), bytes)

\* varint::decode_size
decode_size(first_byte) == ctz(uint64(first_byte) \cup {8}) + 1

\* result |= std::uint64_t{*(in++)} << shift, for the bytes from..to
FromBytes(bytes, from, to) ==
    UNION {shl(uint64(ByteAt(bytes, from + i)), 8 * i) : i \in 0..(to - from)}

\* varint::decode
decode_keeping_size_bits(bytes, size) ==
    IF size = 9 THEN FromBytes(bytes, 2, 9)
    ELSE FromBytes(bytes, 1, size)
decode(bytes, size) ==
    IF size = 9 THEN FromBytes(bytes, 2, 9)
    ELSE shr(FromBytes(bytes, 1, size), size)

(***************************************************************************)
(* serialize::string_helper (standard_types.hpp)                           *)
(***************************************************************************)
\* string_helper::write: the bytes of a string body: the varint length, which
\* takes at least two bytes, then the characters.
max_output_length == 9

\* string_helper::write, the length: the bytes of the varint, and a zero byte
\* after them if the varint took one byte only.
write_length_unpadded(length) == encode(length)
write_length(length) ==
    LET encoded_length == encode(length)
    IN  IF Len(encoded_length) = 1 THEN encoded_length \o <<0>> ELSE encoded_length

string_helper_write(str) == write_length(uint64(Len(str))) \o str

\* string_helper::read_length: the two initial bytes are fetched, then the rest
\* of the varint if it is longer; the bytes of encoded_length that no fetch
\* wrote are zero.  [length, fetched]: the length read and the bytes taken from
\* the archive.
read_length_from(bytes) ==
    LET varint_length == decode_size(ByteAt(bytes, 1))
        fetched == Max(2, varint_length)
        encoded_length == [i \in 1..max_output_length |->
                              IF i <= fetched THEN ByteAt(bytes, i) ELSE 0]
    IN  [length |-> decode(encoded_length, varint_length), fetched |-> fetched]

read_length(bytes) == Value(read_length_from(bytes).length)

VARIABLES
    os_lock,        \* kernel: the process owning the fcntl write lock on the writer slot
    footer,         \* the header's footer-pointer slot
    mem,            \* the objects of the file, by store address
    file_size,      \* the size of the file
    pc,             \* per process: where its transaction stands
    rl_locked,      \* per process: range_lock::locked_
    begin_result,   \* the begin that returned last: <<process, result>>
    txns,           \* transactions begun so far
    logical,        \* per process: database logical size
    regions,        \* per process: storage::regions_
    sat,            \* per process: storage::sat_
    ro_ranges,      \* per process: byte ranges its commit handed to region::read_only
    first_,         \* per process: transaction first_ (logical size when it began)
    size_before,    \* per process: the file size seen as the transaction began
    footer_before,  \* per process: the footer pointer seen as the transaction began
    ops,            \* allocations and string additions made so far
    idx,            \* per process: in-store addresses of the names index's leaves
    idx_root,       \* per process: store address of the flushed names index, or 0
    views_,         \* per process: indirect_string_adder::views_
    trailer_at,     \* per process: address of the trailer being appended, or 0
    last_exit,      \* how the transaction destroyed last ended, and whether it had grown the file
    peak,           \* per process: the largest file size during its transaction
    r_footer,       \* reader: the footer pointer it read last, or 0
    h_store,        \* index: the branches written to the store, by address
    h_leaves,       \* index: the key of each leaf, by the leaf's store address
    h_heap,         \* index: the container of heap-resident branches
    h_root,         \* index: the root index_pointer, or 0
    h_end,          \* index: the address at which the store is extended next
    h_last,         \* index: what the last insert returned: <<key, leaf address, inserted>>
    h_revs,         \* index: the flushed revisions: the store root and the keys of each
    s_db,           \* strings: the database the indirect strings are written to
    s_slots,        \* strings: the indirect strings written: [addr, view, body]
    s_result,       \* strings: what the last read or comparison returned
    g_factory,      \* storage: the region factory the storage was made with
    g_logical,      \* storage: the logical size given to map_bytes last
    g_regions,      \* storage: storage::regions_
    g_sat,          \* storage: storage::sat_
    g_dropped,      \* storage: the regions that the last call of map_bytes dropped
    g_ids,          \* storage: the memory block each region of regions_ has mapped
    g_ptrs,         \* storage: the shared pointers handed out and not yet released
    g_mapped,       \* storage: the memory blocks that are mapped
    g_call,         \* storage: the last call of copy, request_spans_regions or protect, with its result
    p_call,         \* the last call of branch::lookup or of varint::encode and decode, with its result
    k_holders,      \* range locks: the range_lock objects: [alive, has_file, range, locked]
    k_held,         \* range locks: per range of the file, whether the file has it locked
    k_last,         \* range locks: the last operation on a range_lock, and the file calls it made
    n_fs,           \* rename: the file each path names, or 0
    n_path,         \* rename: file_handle::path_
    n_pc,           \* rename: the system call that rename_noreplace makes next, or "idle"
    n_new,          \* rename: the new name given to the rename in progress
    n_last,         \* rename: how the last rename ended
    q_done,         \* broker: the global flag done
    q_signal,       \* broker: the signal quit_info was notified of, or "none"
    q_pc,           \* broker: per caller of shutdown, where it stands
    q_cp,           \* broker: per caller, whether it passes a command processor
    q_ctr,          \* broker: per caller, the counter of the loop over the read threads
    q_calls,        \* broker: per caller, the calls of shutdown it has made
    q_queue,        \* broker: the command processor's queue of commands
    q_log,          \* broker: the log: [caller, what]
    m_file,         \* in-memory file: [state, debug, writable, length, eof, pos]
    m_last,         \* in-memory file: the last call, its argument and how it ended
    o_options,      \* command line: per option, [made, occurrences_, num_occurrences_]
    o_last          \* command line: the last query of an option and what it returned

lockVars == <<os_lock, rl_locked, begin_result, txns>>
fileVars == <<footer, mem, file_size>>
storageVars == <<logical, regions, sat, ro_ranges>>
txnVars == <<first_, size_before, footer_before, ops, idx, idx_root, views_, trailer_at,
             last_exit, peak>>
readerVars == <<r_footer>>
hamtVars == <<h_store, h_leaves, h_heap, h_root, h_end, h_last, h_revs>>
storeVars == <<pc, lockVars, fileVars, storageVars, txnVars, readerVars>>
stringVars == <<s_db, s_slots, s_result>>
mapVars == <<g_factory, g_logical, g_regions, g_sat, g_dropped, g_ids, g_ptrs, g_mapped,
            g_call>>
rangeLockVars == <<k_holders, k_held, k_last>>
renameVars == <<n_fs, n_path, n_pc, n_new, n_last>>
shutdownVars == <<q_done, q_signal, q_pc, q_cp, q_ctr, q_calls, q_queue, q_log>>
inMemoryVars == <<m_file, m_last>>
optionVars == <<o_options, o_last>>
lateVars == <<shutdownVars, inMemoryVars, optionVars>>
callVars == <<p_call, rangeLockVars, renameVars, lateVars>>
vars == <<storeVars, hamtVars, stringVars, mapVars, callVars>>

(***************************************************************************)
(* Storage: regions and the segment address table (storage.cpp).           *)
(* A region is [offset, size]; a live region of one process is identified  *)
(* by its offset.  A SAT entry is [value, region]: region is the owning    *)
(* region and value the distance of the segment's base from the region's   *)
(* base pointer.                                                           *)
(***************************************************************************)
NullEntry == [value |-> -1, region |-> -1]
SatIndex == 0..MaxSegments
EmptySat == [i \in SatIndex |-> NullEntry]

RegionEnd(r) == r.offset + r.size
PhysicalSize(rs) == IF rs = <<>> THEN 0 ELSE RegionEnd(rs[Len(rs)])

\* A region factory is [full, min]: its full and its minimum region size, in
\* segments.  The factory of a storage made for a file has the sizes of
\* storage.hpp: full_region_size is 1 << 32 bytes, 1024 segments.
full_region_segments == 1024
region_factory == [full |-> full_region_segments, min |-> min_region_size \div segment_size]

\* region::factory::add: extend the regions so that they cover [0, new_size):
\* one new full-size region where the gap permits, min-size regions otherwise.
RECURSIVE factory_add(_, _, _, _)
factory_add(f, rs, old_size, new_size) ==
    IF old_size >= new_size THEN rs
    ELSE LET size == IF (new_size - old_size) \div segment_size >= f.full
                     THEN f.full * segment_size
                     ELSE f.min * segment_size
         IN  factory_add(f, Append(rs, [offset |-> old_size, size |-> size]),
                         old_size + size, new_size)

\* storage::slice_region_into_segments: one SAT entry for each segment of the
\* region, from segment_it on.
slice_region_into_segments_past_end(st, region, segment_it) ==
    LET n == region.size \div segment_size + 1
    IN  [st |-> [i \in DOMAIN st |->
                    IF segment_it <= i /\ i < segment_it + n
                    THEN [value |-> (i - segment_it) * segment_size,
                          region |-> region.offset]
                    ELSE st[i]],
         it |-> segment_it + n]
slice_region_into_segments(st, region, segment_it) ==
    LET n == (region.size + segment_size - 1) \div segment_size
    IN  [st |-> [i \in DOMAIN st |->
                    IF segment_it <= i /\ i < segment_it + n
                    THEN [value |-> (i - segment_it) * segment_size,
                          region |-> region.offset]
                    ELSE st[i]],
         it |-> segment_it + n]

RECURSIVE SliceFrom(_, _, _, _)
SliceFrom(rs, st, region_it, segment_it) ==
    IF region_it > Len(rs) THEN st
    ELSE LET r == slice_region_into_segments(st, rs[region_it], segment_it)
         IN  SliceFrom(rs, r.st, region_it + 1, r.it)

update_master_pointers_from_start(rs, st, old_length) ==
    SliceFrom(rs, st, old_length + 1, 0)
update_master_pointers(rs, st, old_length) ==
    LET last_sat_entry == IF old_length > 0
                          THEN RegionEnd(rs[old_length]) \div segment_size
                          ELSE 0
    IN  SliceFrom(rs, st, old_length + 1, last_sat_entry)

shrink_keeping_regions(rs, st, new_size) == [regions |-> rs, sat |-> st]
shrink_keeping_boundary(rs, st, new_size) ==
    LET kept == SelectSeq(rs, LAMBDA r : r.offset <= new_size)
    IN  [regions |-> kept,
         sat |-> [i \in DOMAIN st |->
                     IF i * segment_size >= PhysicalSize(kept) THEN NullEntry ELSE st[i]]]
shrink_leaving_sat(rs, st, new_size) ==
    [regions |-> SelectSeq(rs, LAMBDA r : r.offset < new_size), sat |-> st]
RECURSIVE shrink(_, _, _)
shrink(rs, st, new_size) ==
    IF rs = <<>> THEN [regions |-> rs, sat |-> st]
    ELSE LET region == rs[Len(rs)]
             lo == region.offset \div segment_size
             n == region.size \div segment_size
         IN  IF region.offset < new_size
             THEN [regions |-> rs, sat |-> st]
             ELSE shrink(SubSeq(rs, 1, Len(rs) - 1),
                         [i \in DOMAIN st |->
                             IF lo <= i /\ i < lo + n THEN NullEntry ELSE st[i]],
                         new_size)

map_bytes(f, rs, st, old_logical_size, new_logical_size) ==
    LET old_physical_size == PhysicalSize(rs)
    IN  IF new_logical_size > old_physical_size
        THEN LET grown == factory_add(f, rs, old_physical_size, new_logical_size)
             IN  [regions |-> grown,
                  sat |-> update_master_pointers(grown, st, Len(rs))]
        ELSE IF new_logical_size < old_logical_size
             THEN shrink(rs, st, new_logical_size)
             ELSE [regions |-> rs, sat |-> st]

\* storage::truncate_to_physical_size: the size the file is truncated to.
truncate_to_physical_size(rs) == PhysicalSize(rs)

round_down(x, b) == x - (x % b)

\* storage::protect: the set of <<first_offset, last_offset>> ranges handed to
\* region::read_only.
RECURSIVE ProtectFrom(_, _, _, _)
ProtectFrom(rs, k, first, last) ==
    IF k = 0 THEN {}
    ELSE LET region == rs[k]
             first_offset == Max(region.offset, first)
             last_offset == Min(RegionEnd(region), last)
         IN  IF RegionEnd(region) < first_offset THEN {}
             ELSE (IF first_offset >= first /\ last_offset > first_offset
                   THEN {<<first_offset, last_offset>>} ELSE {})
                  \cup ProtectFrom(rs, k - 1, first, last)

protect_from_first(rs, first, last) ==
    ProtectFrom(rs, Len(rs), round_down(first, page_size), round_down(last, page_size))
protect(rs, first, last) ==
    LET f == Max(round_down(first, page_size),
                 round_down(leader_size + page_size - 1, page_size))
        l == round_down(last, page_size)
    IN  ProtectFrom(rs, Len(rs), f, l)

(***************************************************************************)
(* File locking (file_posix.cpp) and range_lock (file.cpp).                *)
(***************************************************************************)
EAGAIN == 11
EACCES == 13

\* file_handle::lock chooses the fcntl command from the blocking mode.
lock_cmd_never_waits(block) == "F_SETLK"
lock_cmd(block) == IF block = "non_blocking" THEN "F_SETLK" ELSE "F_SETLKW"

\* The kernel's answers (errno values, 0 for success) to an F_WRLCK request on
\* the writer slot made by process p through lock_reg.  A free slot is
\* granted; F_SETLK on a slot owned by another process fails with EAGAIN or
\* EACCES; F_SETLKW on such a slot does not return.
lock_reg(p, holder, cmd) ==
    IF holder = NoProc \/ holder = p THEN {0}
    ELSE IF cmd = "F_SETLK" THEN {EAGAIN, EACCES}
    ELSE {}

\* file_handle::lock, from the errno of lock_reg on.
file_handle_lock_ignoring_errno(err, block) ==
    [raised |-> FALSE, got_lock |-> TRUE]
file_handle_lock(err, block) ==
    IF err # 0
    THEN IF block = "non_blocking" /\ (err = EACCES \/ err = EAGAIN)
         THEN [raised |-> FALSE, got_lock |-> FALSE]
         ELSE [raised |-> TRUE, got_lock |-> FALSE]
    ELSE [raised |-> FALSE, got_lock |-> TRUE]

\* range_lock::lock_impl: what it returns, the new locked_ and whether the
\* file's lock was called, given locked_, whether file_ is not null and what
\* the file's lock answers when called.
lock_impl_always_locked(locked, has_file, got_lock) ==
    [result |-> TRUE, locked |-> TRUE, lock_file |-> ~locked /\ has_file]
lock_impl_relocking(locked, has_file, got_lock) ==
    IF has_file THEN [result |-> got_lock, locked |-> got_lock, lock_file |-> TRUE]
    ELSE [result |-> locked, locked |-> locked, lock_file |-> FALSE]
lock_impl(locked, has_file, got_lock) ==
    IF locked THEN [result |-> FALSE, locked |-> TRUE, lock_file |-> FALSE]
    ELSE IF has_file THEN [result |-> got_lock, locked |-> got_lock, lock_file |-> TRUE]
    ELSE [result |-> FALSE, locked |-> FALSE, lock_file |-> FALSE]

\* range_lock::unlock: whether file_handle::unlock is called, and the new
\* locked_.
range_lock_unlock_flag_only(locked, has_file) ==
    [unlock_file |-> FALSE, locked |-> FALSE]
range_lock_unlock_unchecked(locked, has_file) ==
    [unlock_file |-> has_file, locked |-> FALSE]
range_lock_unlock(locked, has_file) ==
    [unlock_file |-> locked /\ has_file, locked |-> FALSE]

\* file_handle::unlock: fcntl(F_SETLK, F_UNLCK) on the whole writer slot, which
\* gives up the lock of process p if it owns it.
file_handle_unlock(p, holder) == IF holder = p THEN NoProc ELSE holder

(***************************************************************************)
(* The objects of the store.                                               *)
(***************************************************************************)
NoObject == [kind |-> "none", size |-> 0, val |-> <<0, 0, 0, 0, 0>>]
Obj(m, a) == IF a \in DOMAIN m THEN m[a] ELSE NoObject

\* Writing size bytes at address a replaces whatever those bytes held.
Store_not_written(m, a, obj) == m
Store(m, a, obj) ==
    LET keep == {b \in DOMAIN m : b + m[b].size <= a \/ a + obj.size <= b}
    IN  [b \in keep \cup {a} |-> IF b = a THEN obj ELSE m[b]]

\* The bytes at and beyond address a are dropped from the file.
Truncated(m, a) == [b \in {c \in DOMAIN m : c < a} |-> m[b]]

RECURSIVE SetToSeq(_)
SetToSeq(S) ==
    IF S = {} THEN <<>>
    ELSE LET x == CHOOSE y \in S : \A z \in S : y <= z
         IN  <<x>> \o SetToSeq(S \ {x})
SeqToSet(q) == {q[i] : i \in DOMAIN q}

\* Fields of a trailer's val.
T_prev == 1
T_revision == 2
T_size == 3
T_names == 4
T_complete == 5

(***************************************************************************)
(* The database as one process sees it: d = [logical, regions, sat, mem,   *)
(* file_size].  The operators below thread d through the calls a handler   *)
(* makes.                                                                  *)
(***************************************************************************)
Db(p) == [logical |-> logical[p], regions |-> regions[p], sat |-> sat[p],
          mem |-> mem, file_size |-> file_size]

Capacity == MaxSegments * segment_size

\* database::allocate (transaction::allocate): pad the write pointer to align,
\* reserve n bytes, map them.  The result carries the address in field addr.
allocate_from_padding(d, n, align) ==
    LET start == calc_alignment(d.logical, align)
        new_logical_size == start + n
        st == map_bytes(region_factory, d.regions, d.sat, d.logical, new_logical_size)
    IN  [logical |-> new_logical_size, regions |-> st.regions, sat |-> st.sat,
         mem |-> d.mem,
         file_size |-> Max(d.file_size, PhysicalSize(st.regions)),
         addr |-> start]
allocate(d, n, align) ==
    LET start == d.logical + calc_alignment(d.logical, align)
        new_logical_size == start + n
        st == map_bytes(region_factory, d.regions, d.sat, d.logical, new_logical_size)
    IN  [logical |-> new_logical_size, regions |-> st.regions, sat |-> st.sat,
         mem |-> d.mem,
         file_size |-> Max(d.file_size, PhysicalSize(st.regions)),
         addr |-> start]

Fits(d, n, align) ==
    d.logical + calc_alignment(d.logical, align) + n <= Capacity

\* database_writer_policy::put / putn: allocate the bytes, then write them.
put(d, obj, align) ==
    LET d1 == allocate(d, obj.size, align)
    IN  [d1 EXCEPT !.mem = Store(d1.mem, d1.addr, obj)]

\* The size of a string body: at least two bytes of varint length, then the
\* characters.
body_size(str) == Max(encoded_size(uint64(Len(str))), 2) + Len(str)

\* indirect_string::write_body_and_patch_address
write_body_and_patch_address(d, str, address_to_patch) ==
    LET d1 == allocate(d, 0, 2)
        bytes == string_helper_write(str)
        d2 == put(d1, [kind |-> "body", size |-> Len(bytes), val |-> bytes], 1)
        body_address == d2.addr
        slot == Obj(d2.mem, address_to_patch)
    IN  [d2 EXCEPT !.mem = Store(d2.mem, address_to_patch,
                                 [slot EXCEPT !.val = <<body_address>>])]

\* indirect_string_adder::flush: the database after the bodies of all the
\* remembered views are written (views_ is then cleared).
RECURSIVE flush(_, _)
flush(d, vs) ==
    IF vs = <<>> THEN d
    ELSE flush(write_body_and_patch_address(d, HeapDeref(vs[1][1]), vs[1][2]),
               Tail(vs))

\* indirect_string_adder::flush, its end: views_.clear ().
views_clear_nothing(vs) == vs
views_clear(vs) == <<>>

FlushFits(d, vs) == d.logical + 1 + Len(vs) * (1 + body_size(StringOf(NumViews))) <= Capacity

\* get_sstring_view (db, addr, length, owner): the characters of the body at
\* addr, whose length is known.
get_sstring_view_no_minimum(m, addr, length) ==
    LET skip == encoded_size(uint64(length))
    IN  [i \in 1..length |-> ByteAt(Obj(m, addr).val, skip + i)]
get_sstring_view_length(m, addr, length) ==
    LET skip == Max(encoded_size(uint64(length)), 2)
    IN  [i \in 1..length |-> ByteAt(Obj(m, addr).val, skip + i)]

\* get_sstring_view (db, addr, owner): the string whose body is at addr is read:
\* its length, then its characters.
get_sstring_view(m, addr) ==
    get_sstring_view_length(m, addr, read_length(Obj(m, addr).val))

\* indirect_string::as_string_view of the in-store indirect string at slot s:
\* the word's least significant bit tells a heap pointer from a body address.
as_string_view_store_only(m, s) ==
    LET w == Obj(m, s).val[1]
    IN  IF w % 2 = in_heap_mask THEN <<>> ELSE get_sstring_view(m, w)
as_string_view(m, s) ==
    LET w == Obj(m, s).val[1]
    IN  IF w % 2 = in_heap_mask THEN HeapDeref(w - in_heap_mask)
        ELSE get_sstring_view(m, w)

\* An indirect_string object is [is_pointer, address]: address is str_ (the heap
\* address of a view) if is_pointer, and address_ otherwise.
\* indirect_string (db, &view): form (a).
indirect_string_of_view(v) == [is_pointer |-> TRUE, address |-> HeapAddr(v)]

\* indirect_string::read: serializer<indirect_string>::read_string_address
\* makes the object from the word at addr.
indirect_string_read(m, addr) == [is_pointer |-> FALSE, address |-> Obj(m, addr).val[1]]

\* indirect_string::is_in_store
is_in_store(x) == ~x.is_pointer /\ x.address % 2 # in_heap_mask

\* indirect_string::as_string_view of an indirect_string object.
as_string_view_of(m, x) ==
    IF x.is_pointer THEN HeapDeref(x.address)
    ELSE IF x.address % 2 = in_heap_mask THEN HeapDeref(x.address - in_heap_mask)
    ELSE get_sstring_view(m, x.address)

\* indirect_string::as_db_string_view: [error, view].
as_db_string_view_unchecked(m, x) == [error |-> "none", view |-> as_string_view_of(m, x)]
as_db_string_view(m, x) ==
    IF ~is_in_store(x) THEN [error |-> "bad_address", view |-> <<>>]
    ELSE [error |-> "none", view |-> as_string_view_of(m, x)]

\* get_sstring_view (db, typed_address<indirect_string> addr, owner)
get_sstring_view_indirect(m, addr) == as_db_string_view(m, indirect_string_read(m, addr))

\* indirect_string::equal_contents
equal_contents(m, x, y) == as_string_view_of(m, x) = as_string_view_of(m, y)

\* indirect_string::operator==: the outcomes, as strings.  Where the value
\* about to be returned differs from equal_contents, a build with assertions
\* stops at PSTORE_ASSERT and a build without them returns the value.
Outcome(b) == IF b THEN "true" ELSE "false"
operator_eq(m, x, y) ==
    IF ~x.is_pointer /\ ~y.is_pointer
    THEN LET equal == x.address = y.address
         IN  IF equal_contents(m, x, y) = equal THEN {Outcome(equal)}
             ELSE {Outcome(equal), "assertion_failed"}
    ELSE IF x.is_pointer /\ y.is_pointer /\ x.address = y.address
    THEN IF equal_contents(m, x, y) THEN {"true"} ELSE {"true", "assertion_failed"}
    ELSE {Outcome(equal_contents(m, x, y))}

\* serializer<indirect_string>::write_string_address: the indirect string for
\* view v is written to the store: the view's heap address with the in-heap
\* bit set.
write_string_address(d, v) ==
    put(d, [kind |-> "slot", size |-> address_size,
            val |-> <<HeapAddr(v) + in_heap_mask>>], address_size)

\* hamt_set::insert of the indirect string for view v into the names index
\* whose leaves are ix: <<database, index, address of the leaf, inserted>>.
\* A new leaf is the indirect string itself, written by
\* serializer<indirect_string>::write_string_address.
index_insert(d, ix, v) ==
    LET same == {s \in ix : as_string_view(d.mem, s) = ViewChars(v)}
    IN  IF same # {}
        THEN [d |-> d, ix |-> ix, pos |-> CHOOSE s \in same : TRUE, second |-> FALSE]
        ELSE LET d1 == write_string_address(d, v)
             IN  [d |-> d1, ix |-> ix \cup {d1.addr}, pos |-> d1.addr, second |-> TRUE]

\* indirect_string_adder::add: the new views_.
add_remembering_nothing(vs, v, res) == vs
add_remembering_every_view(vs, v, res) ==
    Append(vs, <<HeapAddr(v), res.pos>>)
add(vs, v, res) ==
    IF res.second THEN Append(vs, <<HeapAddr(v), res.pos>>) ELSE vs

(***************************************************************************)
(* The HAMT index (hamt_map_types.hpp).  A branch is [bitmap, children]:   *)
(* the set of occupied slots and the packed array of child pointers.  An   *)
(* index_pointer is a word: a leaf's store address, the store address of a *)
(* branch with branch_bit set, or a heap pointer with branch_bit and       *)
(* heap_bit set.  Store addresses and heap pointers are multiples of 8.    *)
(***************************************************************************)
MaxKeys == 5        \* distinct keys offered to the index

hash_size == 64
hash_index_bits == 6
branch_bit == 1
heap_bit == 2
not_found == -1
max_hash_bits == ((hash_size + 7) \div hash_index_bits) * hash_index_bits
hash_index_mask == (2 ^ hash_index_bits) - 1
max_branch_depth == max_hash_bits \div hash_index_bits

depth_is_branch_one_more(shift) == shift <= max_hash_bits
depth_is_branch(shift) == shift < max_hash_bits

Keys == 1..MaxKeys
\* The keys' hashes: odd keys agree on their first two chunks, and so do even
\* keys.  The hashes of the first DistinctKeys keys differ; every further key
\* has the hash of key 2.
DistinctKeys == 4
Hash(k) ==
    LET j == IF k > DistinctKeys THEN 2 ELSE k
    IN  (j % 2) * (2 ^ hash_index_bits + 1) + j * 2 ^ (2 * hash_index_bits)
\* The chunk of the hash at shift bits; the hashes here are below 2^30, so
\* that the chunks from there on are 0.
HashIndex(hash, shift) ==
    IF shift >= 30 THEN 0 ELSE (hash \div (2 ^ shift)) % (hash_index_mask + 1)

is_branch(ip) == ip % 2 = branch_bit
is_heap(ip) == (ip \div heap_bit) % 2 = 1
is_empty(ip) == ip = 0
untag(ip) == ip - (ip % 4)
untag_address(ip) == ip - (ip % 2)
tag(ptr) == ptr + branch_bit + heap_bit

\* The heap pointer of the i-th branch of the container.
HeapPtr(i) == 8 * i

pop_count(S) == Cardinality(S)

\* branch::lookup
branch_lookup_not_found(b, hash_index) == [child |-> 0, index |-> not_found]
branch_lookup_narrow_shift(b, hash_index) ==
    LET bit_pos == shl(uint64(1), hash_index % 32)
    IN  IF (b.bitmap \cap bit_pos) # Zero
        THEN LET index == pop_count(b.bitmap \cap minus_one(bit_pos))
             IN  [child |-> b.children[index + 1], index |-> index]
        ELSE [child |-> 0, index |-> not_found]
branch_lookup(b, hash_index) ==
    LET bit_pos == shl(uint64(1), hash_index)
    IN  IF (b.bitmap \cap bit_pos) # Zero
        THEN LET index == pop_count(b.bitmap \cap minus_one(bit_pos))
             IN  [child |-> b.children[index + 1], index |-> index]
        ELSE [child |-> 0, index |-> not_found]

\* branch::get_new_index
get_new_index(new_hash, existing_hash) == IF new_hash >= existing_hash THEN 1 ELSE 0

\* branch::size_bytes: signature, bitmap, children.
size_bytes(num_children) == 8 + 8 + 8 * num_children

\* branch::allocate (container, other): a copy of other is appended to the
\* container; the result is a reference to it.
branch_allocate(container, other) ==
    [container |-> Append(container, other),
     inode |-> <<"heap", HeapPtr(Len(container) + 1)>>]

\* branch::make_writable: a reference to a branch that may be written.
make_writable_in_place(container, node, b) ==
    [container |-> container,
     inode |-> <<IF is_heap(node) THEN "heap" ELSE "store",
                 IF is_heap(node) THEN untag(node) ELSE untag_address(node)>>]
make_writable(container, node, b) ==
    IF is_heap(node)
    THEN [container |-> container, inode |-> <<"heap", untag(node)>>]
    ELSE branch_allocate(container, b)

(***************************************************************************)
(* The initial state: a new store, opened by every process.  The file      *)
(* holds the header and the initial, empty trailer.                        *)
(***************************************************************************)
InitialTrailer == [kind |-> "trailer", size |-> trailer_size, val |-> <<0, 0, 0, 0, 1>>]
InitialStorage == map_bytes(region_factory, <<>>, EmptySat, 0, leader_size + trailer_size)

StoreInit ==
    /\ os_lock = NoProc
    /\ footer = leader_size
    /\ mem = [a \in {leader_size} |-> InitialTrailer]
    /\ file_size = PhysicalSize(InitialStorage.regions)
    /\ pc = [p \in Procs |-> "idle"]
    /\ rl_locked = [p \in Procs |-> FALSE]
    /\ begin_result = <<NoProc, "none">>
    /\ txns = 0
    /\ logical = [p \in Procs |-> leader_size + trailer_size]
    /\ regions = [p \in Procs |-> InitialStorage.regions]
    /\ sat = [p \in Procs |-> InitialStorage.sat]
    /\ ro_ranges = [p \in Procs |-> {}]
    /\ first_ = [p \in Procs |-> 0]
    /\ size_before = [p \in Procs |-> 0]
    /\ footer_before = [p \in Procs |-> 0]
    /\ ops = 0
    /\ idx = [p \in Procs |-> {}]
    /\ idx_root = [p \in Procs |-> 0]
    /\ views_ = [p \in Procs |-> <<>>]
    /\ trailer_at = [p \in Procs |-> 0]
    /\ last_exit = <<"none", 0>>
    /\ peak = [p \in Procs |-> 0]
    /\ r_footer = 0

\* The storage and file variables take the values of d.
Install(p, d) ==
    /\ logical' = [logical EXCEPT ![p] = d.logical]
    /\ regions' = [regions EXCEPT ![p] = d.regions]
    /\ sat' = [sat EXCEPT ![p] = d.sat]
    /\ mem' = d.mem
    /\ file_size' = d.file_size
    /\ peak' = [peak EXCEPT ![p] = Max(@, d.file_size)]

(***************************************************************************)
(* Beginning a transaction.                                                *)
(***************************************************************************)
\* With the writer lock held, the transaction's constructor brings the
\* process's view of the store up to the HEAD revision and notes where it
\* starts.
Sync(p) ==
    LET new_logical == footer + trailer_size
        st == map_bytes(region_factory, regions[p], sat[p], logical[p], new_logical)
        root == Obj(mem, footer).val[T_names]
    IN  /\ logical' = [logical EXCEPT ![p] = new_logical]
        /\ regions' = [regions EXCEPT ![p] = st.regions]
        /\ sat' = [sat EXCEPT ![p] = st.sat]
        /\ first_' = [first_ EXCEPT ![p] = new_logical]
        /\ size_before' = [size_before EXCEPT ![p] = file_size]
        /\ footer_before' = [footer_before EXCEPT ![p] = footer]
        /\ idx' = [idx EXCEPT ![p] = IF root = 0 THEN {} ELSE SeqToSet(Obj(mem, root).val)]
        /\ idx_root' = [idx_root EXCEPT ![p] = root]
        /\ views_' = [views_ EXCEPT ![p] = <<>>]
        /\ trailer_at' = [trailer_at EXCEPT ![p] = 0]
        /\ peak' = [peak EXCEPT ![p] = file_size]
        /\ UNCHANGED <<ro_ranges, last_exit, ops>>

\* range_lock::lock / try_lock on the writer slot, and what the constructor
\* makes of the answer.
LockAttempt(p, block) ==
    \E err \in lock_reg(p, os_lock, lock_cmd(block)) :
        LET r == file_handle_lock(err, block)
            now_locked == lock_impl(rl_locked[p], TRUE, r.got_lock).locked
        IN  /\ os_lock' = IF err = 0 THEN p ELSE os_lock
            /\ IF r.raised
               THEN /\ begin_result' = <<p, "io_error">>
                    /\ pc' = [pc EXCEPT ![p] = "idle"]
                    /\ UNCHANGED <<rl_locked, storageVars, txnVars>>
               ELSE /\ rl_locked' = [rl_locked EXCEPT ![p] = now_locked]
                    /\ IF now_locked
                       THEN /\ begin_result' = <<p, "ok">>
                            /\ pc' = [pc EXCEPT ![p] = "open"]
                            /\ Sync(p)
                       ELSE /\ begin_result' = <<p, "lock_unavailable">>
                            /\ pc' = [pc EXCEPT ![p] = "idle"]
                            /\ UNCHANGED <<storageVars, txnVars>>

\* A non-blocking begin: one call, which returns at once.
TryBegin(p) ==
    /\ pc[p] = "idle"
    /\ txns < MaxTxns
    /\ txns' = txns + 1
    /\ LockAttempt(p, "non_blocking")
    /\ UNCHANGED <<fileVars, readerVars, hamtVars, stringVars, mapVars, callVars>>

\* A blocking begin: the call is made ...
BeginBlocking(p) ==
    /\ pc[p] = "idle"
    /\ txns < MaxTxns
    /\ txns' = txns + 1
    /\ pc' = [pc EXCEPT ![p] = "lock_wait"]
    /\ UNCHANGED <<os_lock, rl_locked, begin_result, fileVars, storageVars, txnVars, readerVars, hamtVars, stringVars, mapVars, callVars>>

\* ... and returns when fcntl does.
Acquire(p) ==
    /\ pc[p] = "lock_wait"
    /\ LockAttempt(p, "blocking")
    /\ UNCHANGED <<txns, fileVars, readerVars, hamtVars, stringVars, mapVars, callVars>>

(***************************************************************************)
(* Operations of an open transaction.                                      *)
(***************************************************************************)
AllocSizes == {1048576, segment_size}

\* alloc_rw<std::uint8_t>(n), and the caller's copy of its data to the memory
\* returned.
AllocRaw(p, n) ==
    /\ pc[p] = "open"
    /\ ops < MaxOps
    /\ Fits(Db(p), n, 1)
    /\ \E d \in {put(Db(p), [kind |-> "raw", size |-> n, val |-> <<1>>], 1)} :
           Install(p, d)
    /\ ops' = ops + 1
    /\ UNCHANGED <<pc, lockVars, footer, ro_ranges, first_, size_before, footer_before,
                   idx, idx_root, views_, trailer_at, last_exit, readerVars, hamtVars, stringVars, mapVars, callVars>>

\* indirect_string_adder::add
Add(p, v) ==
    /\ pc[p] = "open"
    /\ ops < MaxOps
    /\ Fits(Db(p), address_size, address_size)
    /\ \E res \in {index_insert(Db(p), idx[p], v)} :
           /\ Install(p, res.d)
           /\ idx' = [idx EXCEPT ![p] = res.ix]
           /\ views_' = [views_ EXCEPT ![p] = add(@, v, res)]
    /\ ops' = ops + 1
    /\ UNCHANGED <<pc, lockVars, footer, ro_ranges, first_, size_before, footer_before,
                   idx_root, trailer_at, last_exit, readerVars, hamtVars, stringVars, mapVars, callVars>>

\* indirect_string_adder::flush
Flush(p) ==
    /\ pc[p] = "open"
    /\ FlushFits(Db(p), views_[p])
    /\ \E d \in {flush(Db(p), views_[p])} : Install(p, d)
    /\ views_' = [views_ EXCEPT ![p] = views_clear(@)]
    /\ UNCHANGED <<pc, lockVars, footer, ro_ranges, first_, size_before, footer_before,
                   ops, idx, idx_root, trailer_at, last_exit, readerVars, hamtVars, stringVars, mapVars, callVars>>

(***************************************************************************)
(* commit(), step by step.                                                 *)
(***************************************************************************)
PersistedIndex(p) ==
    IF idx_root[p] = 0 THEN {} ELSE SeqToSet(Obj(mem, idx_root[p]).val)

index_bytes(ix) == header_block_size + 2 * address_size + address_size * Cardinality(ix)

\* 1. A modified index is flushed: its nodes and header block are written and
\*    it has a new root.
CommitFlushIndex(p) ==
    /\ pc[p] = "open"
    /\ views_[p] = <<>>
    /\ IF idx[p] = PersistedIndex(p)
       THEN UNCHANGED <<mem, file_size, storageVars, idx_root, peak>>
       ELSE /\ Fits(Db(p), index_bytes(idx[p]), address_size)
            /\ \E d \in {put(Db(p), [kind |-> "index", size |-> index_bytes(idx[p]),
                                     val |-> SetToSeq(idx[p])], address_size)} :
                   /\ Install(p, d)
                   /\ idx_root' = [idx_root EXCEPT ![p] = d.addr]
            /\ UNCHANGED ro_ranges
    /\ pc' = [pc EXCEPT ![p] = "flushed"]
    /\ UNCHANGED <<lockVars, footer, first_, size_before, footer_before, ops, idx,
                   views_, trailer_at, last_exit, readerVars, hamtVars, stringVars, mapVars, callVars>>

\* 2. storage::protect on the bytes of the transaction.
CommitProtect(p) ==
    /\ pc[p] = "flushed"
    /\ ro_ranges' = [ro_ranges EXCEPT ![p] = protect(regions[p], first_[p], logical[p])]
    /\ pc' = [pc EXCEPT ![p] = "protected"]
    /\ UNCHANGED <<lockVars, fileVars, logical, regions, sat, txnVars, readerVars, hamtVars, stringVars, mapVars, callVars>>

\* 3. The trailer is appended: its bytes are reserved ...
CommitAppendTrailer(p) ==
    /\ pc[p] = "protected"
    /\ Fits(Db(p), trailer_size, address_size)
    /\ \E d \in {put(Db(p), [kind |-> "trailer", size |-> trailer_size,
                             val |-> <<0, 0, 0, 0, 0>>], address_size)} :
           /\ Install(p, d)
           /\ trailer_at' = [trailer_at EXCEPT ![p] = d.addr]
    /\ pc' = [pc EXCEPT ![p] = "appending"]
    /\ UNCHANGED <<lockVars, footer, ro_ranges, first_, size_before, footer_before, ops,
                   idx, idx_root, views_, last_exit, readerVars, hamtVars, stringVars, mapVars, callVars>>

\*    ... and written.
CommitWriteTrailer(p) ==
    /\ pc[p] = "appending"
    /\ LET prev == Obj(mem, footer_before[p])
           t == [kind |-> "trailer", size |-> trailer_size,
                 val |-> <<footer_before[p], prev.val[T_revision] + 1,
                           trailer_at[p] - first_[p], idx_root[p], 1>>]
       IN  mem' = Store(mem, trailer_at[p], t)
    /\ pc' = [pc EXCEPT ![p] = "appended"]
    /\ UNCHANGED <<lockVars, footer, file_size, storageVars, txnVars, readerVars, hamtVars, stringVars, mapVars, callVars>>

\* 4. The footer pointer is stored: the commit.
CommitPublish(p) ==
    /\ pc[p] = "appended"
    /\ footer' = trailer_at[p]
    /\ pc' = [pc EXCEPT ![p] = "published"]
    /\ UNCHANGED <<lockVars, mem, file_size, storageVars, txnVars, readerVars, hamtVars, stringVars, mapVars, callVars>>

\* range_lock::unlock with the file_handle::unlock it makes.
Unlock(p) ==
    LET u == range_lock_unlock(rl_locked[p], TRUE)
    IN  /\ os_lock' = IF u.unlock_file THEN file_handle_unlock(p, os_lock) ELSE os_lock
        /\ rl_locked' = [rl_locked EXCEPT ![p] = u.locked]

\* 5. The writer lock is released.
CommitRelease(p) ==
    /\ pc[p] = "published"
    /\ Unlock(p)
    /\ pc' = [pc EXCEPT ![p] = "committed"]
    /\ UNCHANGED <<begin_result, txns, fileVars, storageVars, txnVars, readerVars, hamtVars, stringVars, mapVars, callVars>>

\* A step of commit() fails: the index flush, protect or the trailer append
\* raises an error.
CommitFail(p) ==
    /\ \/ pc[p] = "open" /\ views_[p] = <<>>
       \/ pc[p] = "flushed"
       \/ pc[p] = "protected"
    /\ pc' = [pc EXCEPT ![p] = "failed"]
    /\ UNCHANGED <<lockVars, fileVars, storageVars, txnVars, readerVars, hamtVars, stringVars, mapVars, callVars>>

\* The fields of a destroyed transaction and its adder are gone.
ForgetTransaction(p) ==
    /\ first_' = [first_ EXCEPT ![p] = 0]
    /\ size_before' = [size_before EXCEPT ![p] = 0]
    /\ footer_before' = [footer_before EXCEPT ![p] = 0]
    /\ idx' = [idx EXCEPT ![p] = {}]
    /\ idx_root' = [idx_root EXCEPT ![p] = 0]
    /\ views_' = [views_ EXCEPT ![p] = <<>>]
    /\ trailer_at' = [trailer_at EXCEPT ![p] = 0]
    /\ peak' = [peak EXCEPT ![p] = 0]

\* The transaction is destroyed.  If it was not committed it is rolled back:
\* the storage shrinks to the size at which the transaction began and the file
\* is truncated to what is still mapped.  The lock holder is destroyed with it.
Destroy(p) ==
    /\ pc[p] \in {"open", "failed", "committed"}
    /\ IF pc[p] = "committed"
       THEN UNCHANGED <<mem, file_size, logical, regions, sat>>
       ELSE \E st \in {map_bytes(region_factory, regions[p], sat[p], logical[p],
                                      first_[p])} :
                /\ logical' = [logical EXCEPT ![p] = first_[p]]
                /\ regions' = [regions EXCEPT ![p] = st.regions]
                /\ sat' = [sat EXCEPT ![p] = st.sat]
                /\ file_size' = truncate_to_physical_size(st.regions)
                /\ mem' = Truncated(mem, first_[p])
    /\ ro_ranges' = [ro_ranges EXCEPT ![p] = {}]
    /\ last_exit' = <<CASE pc[p] = "committed" -> "commit"
                        [] pc[p] = "failed" -> "error"
                        [] OTHER -> "abandon",
                      peak[p] - size_before[p]>>
    /\ Unlock(p)
    /\ ForgetTransaction(p)
    /\ pc' = [pc EXCEPT ![p] = "idle"]
    /\ UNCHANGED <<begin_result, txns, footer, ops, readerVars, hamtVars, stringVars, mapVars, callVars>>

(***************************************************************************)
(* A reader takes no lock: it reads the footer pointer, at any time, and   *)
(* from then on reads what lies below it.                                  *)
(***************************************************************************)
ReaderReadFooter ==
    /\ r_footer # footer
    /\ r_footer' = footer
    /\ UNCHANGED <<pc, lockVars, fileVars, storageVars, txnVars, hamtVars, stringVars, mapVars, callVars>>

Next ==
    \/ \E p \in Procs : TryBegin(p)
    \/ \E p \in Procs : BeginBlocking(p)
    \/ \E p \in Procs : Acquire(p)
    \/ \E p \in Procs, n \in AllocSizes : AllocRaw(p, n)
    \/ \E p \in Procs, v \in Views : Add(p, v)
    \/ \E p \in Procs : Flush(p)
    \/ \E p \in Procs : CommitFlushIndex(p)
    \/ \E p \in Procs : CommitProtect(p)
    \/ \E p \in Procs : CommitAppendTrailer(p)
    \/ \E p \in Procs : CommitWriteTrailer(p)
    \/ \E p \in Procs : CommitPublish(p)
    \/ \E p \in Procs : CommitRelease(p)
    \/ \E p \in Procs : CommitFail(p)
    \/ \E p \in Procs : Destroy(p)
    \/ ReaderReadFooter


(***************************************************************************)
(* The HAMT index: insert and flush.  hs = [store, leaves, heap, end] is   *)
(* the index and the store it writes to.  A linear node is kept like a     *)
(* branch, with no bitmap: [bitmap |-> {}, children |-> the leaves].       *)
(***************************************************************************)
HS == [store |-> h_store, leaves |-> h_leaves, heap |-> h_heap, end |-> h_end]

HamtInit ==
    /\ h_store = <<>>
    /\ h_leaves = <<>>
    /\ h_heap = <<>>
    /\ h_root = 0
    /\ h_end = leader_size + trailer_size
    /\ h_last = <<0, 0, FALSE>>
    /\ h_revs = <<>>

Extend(f, a, x) == [b \in DOMAIN f \cup {a} |-> IF b = a THEN x ELSE f[b]]

\* The branch an index_pointer refers to.
LoadBranch(hs, node) ==
    IF is_heap(node) THEN hs.heap[untag(node) \div 8] ELSE hs.store[untag_address(node)]

\* A write through the reference that make_writable returned.
WriteBranch(hs, inode, b) ==
    IF inode[1] = "heap"
    THEN [hs EXCEPT !.heap[inode[2] \div 8] = b]
    ELSE [hs EXCEPT !.store[inode[2]] = b]

\* The index_pointer for the branch that reference names.
PointerTo(inode) == IF inode[1] = "heap" THEN tag(inode[2]) ELSE inode[2] + branch_bit

\* The key is written to the store: its address is the new leaf.
StoreLeaf(hs, k) ==
    [hs EXCEPT !.leaves = Extend(hs.leaves, hs.end, k), !.end = hs.end + address_size]

\* branch::insert_child: the branch with a leaf at slot hash_index.
insert_child_appending(b, hash_index, leaf) ==
    [bitmap |-> b.bitmap \cup {hash_index}, children |-> Append(b.children, leaf)]
insert_child(b, hash_index, leaf) ==
    LET index == pop_count({s \in b.bitmap : s < hash_index})
    IN  [bitmap |-> b.bitmap \cup {hash_index},
         children |-> SubSeq(b.children, 1, index) \o <<leaf>>
                      \o SubSeq(b.children, index + 1, Len(b.children))]

\* linear_node::allocate (a, b): a linear node of two leaves.
linear_allocate(a, b) == [bitmap |-> {}, children |-> <<a, b>>]

\* linear_node::lookup: the first leaf of the node whose key equals k.
linear_lookup(hs, l, k) ==
    LET hits == {i \in DOMAIN l.children : hs.leaves[l.children[i]] = k}
    IN  IF hits = {} THEN [child |-> 0, index |-> not_found]
        ELSE LET cnum == CHOOSE i \in hits : \A j \in hits : i <= j
             IN  [child |-> l.children[cnum], index |-> cnum - 1]

\* The heap branches that hold two leaves whose hashes agree up to shift:
\* <<container, index_pointer>>.
RECURSIVE two_leaves(_, _, _, _, _, _)
two_leaves(container, existing_leaf, new_leaf, existing_hash, new_hash, shift) ==
    LET e == HashIndex(existing_hash, shift)
        n == HashIndex(new_hash, shift)
    IN  IF ~depth_is_branch(shift)
        THEN <<Append(container, linear_allocate(existing_leaf, new_leaf)),
               tag(HeapPtr(Len(container) + 1))>>
        ELSE IF e # n
        THEN LET b == [bitmap |-> {e, n},
                       children |-> IF get_new_index(n, e) = 1
                                    THEN <<existing_leaf, new_leaf>>
                                    ELSE <<new_leaf, existing_leaf>>]
             IN  <<Append(container, b), tag(HeapPtr(Len(container) + 1))>>
        ELSE LET below == two_leaves(container, existing_leaf, new_leaf,
                                     existing_hash, new_hash, shift + hash_index_bits)
                 b == [bitmap |-> {e}, children |-> <<below[2]>>]
             IN  <<Append(below[1], b), tag(HeapPtr(Len(below[1]) + 1))>>

\* Insert of key k below node, whose depth is shift bits:
\* [hs, node, pos, inserted], node being the index_pointer that replaces node
\* and pos the address of the leaf that holds k.
RECURSIVE insert_node(_, _, _, _)
insert_node(hs, node, k, shift) ==
    IF ~is_branch(node)
    THEN IF hs.leaves[node] = k
         THEN [hs |-> hs, node |-> node, pos |-> node, inserted |-> FALSE]
         ELSE LET hs1 == StoreLeaf(hs, k)
                  made == two_leaves(hs1.heap, node, hs.end,
                                     Hash(hs.leaves[node]), Hash(k), shift)
              IN  [hs |-> [hs1 EXCEPT !.heap = made[1]], node |-> made[2],
                   pos |-> hs.end, inserted |-> TRUE]
    ELSE IF ~depth_is_branch(shift)
    THEN LET l == LoadBranch(hs, node)
             found == linear_lookup(hs, l, k)
         IN  IF found.index # not_found
             THEN [hs |-> hs, node |-> node, pos |-> found.child, inserted |-> FALSE]
             ELSE LET hs1 == StoreLeaf(hs, k)
                      w == make_writable(hs1.heap, node, l)
                      hs2 == [hs1 EXCEPT !.heap = w.container]
                  IN  [hs |-> WriteBranch(hs2, w.inode,
                                          [l EXCEPT !.children = Append(@, hs.end)]),
                       node |-> PointerTo(w.inode), pos |-> hs.end, inserted |-> TRUE]
    ELSE LET b == LoadBranch(hs, node)
             hash_index == HashIndex(Hash(k), shift)
             found == branch_lookup(b, hash_index)
         IN  IF found.index = not_found
             THEN LET hs1 == StoreLeaf(hs, k)
                      w == make_writable(hs1.heap, node, b)
                      hs2 == [hs1 EXCEPT !.heap = w.container]
                  IN  [hs |-> WriteBranch(hs2, w.inode, insert_child(b, hash_index, hs.end)),
                       node |-> PointerTo(w.inode), pos |-> hs.end, inserted |-> TRUE]
             ELSE LET below == insert_node(hs, found.child, k, shift + hash_index_bits)
                  IN  IF below.node = found.child
                      THEN [hs |-> below.hs, node |-> node, pos |-> below.pos,
                            inserted |-> below.inserted]
                      ELSE LET w == make_writable(below.hs.heap, node, b)
                               hs2 == [below.hs EXCEPT !.heap = w.container]
                               b2 == [b EXCEPT !.children[found.index + 1] = below.node]
                           IN  [hs |-> WriteBranch(hs2, w.inode, b2),
                                node |-> PointerTo(w.inode), pos |-> below.pos,
                                inserted |-> below.inserted]

\* branch::flush: the heap-resident branches below node are appended to the
\* store, children first: <<hs, store index_pointer>>.
RECURSIVE branch_flush(_, _)
RECURSIVE flush_children(_, _, _)
flush_children(hs, children, i) ==
    IF i > Len(children) THEN <<hs, children>>
    ELSE LET r == branch_flush(hs, children[i])
         IN  flush_children(r[1], [children EXCEPT ![i] = r[2]], i + 1)

branch_flush(hs, node) ==
    IF ~(is_branch(node) /\ is_heap(node)) THEN <<hs, node>>
    ELSE LET b == LoadBranch(hs, node)
             r == flush_children(hs, b.children, 1)
             at == r[1].end
         IN  <<[r[1] EXCEPT !.store = Extend(r[1].store, at,
                                             [bitmap |-> b.bitmap, children |-> r[2]]),
                            !.end = at + size_bytes(Len(r[2]))],
               at + branch_bit>>

InstallIndex(hs, root) ==
    /\ h_store' = hs.store
    /\ h_leaves' = hs.leaves
    /\ h_heap' = hs.heap
    /\ h_end' = hs.end
    /\ h_root' = root

\* The lookup of key k below node, whose depth is shift bits: the address of
\* the leaf that holds k, or not_found.
RECURSIVE find_node(_, _, _, _)
find_node(hs, node, k, shift) ==
    IF is_empty(node) THEN not_found
    ELSE IF ~is_branch(node)
    THEN IF hs.leaves[node] = k THEN node ELSE not_found
    ELSE IF ~depth_is_branch(shift)
    THEN LET found == linear_lookup(hs, LoadBranch(hs, node), k)
         IN  IF found.index = not_found THEN not_found ELSE found.child
    ELSE LET found == branch_lookup(LoadBranch(hs, node), HashIndex(Hash(k), shift))
         IN  IF found.index = not_found THEN not_found
             ELSE find_node(hs, found.child, k, shift + hash_index_bits)

\* hamt_map::find in the index whose root is root.
hamt_find(hs, root, k) == find_node(hs, root, k, 0)

\* hamt_map::insert
HInsert(k) ==
    /\ IF is_empty(h_root)
       THEN /\ InstallIndex(StoreLeaf(HS, k), h_end)
            /\ h_last' = <<k, h_end, TRUE>>
       ELSE \E r \in {insert_node(HS, h_root, k, 0)} :
                /\ InstallIndex(r.hs, r.node)
                /\ h_last' = <<k, r.pos, r.inserted>>
    /\ UNCHANGED <<h_revs, storeVars, stringVars, mapVars, callVars>>

\* hamt_map::flush: the dirty branches are written to the store and the heap
\* container is emptied.
HFlush ==
    /\ h_heap # <<>>
    /\ \E r \in {branch_flush(HS, h_root)} :
           /\ InstallIndex([r[1] EXCEPT !.heap = <<>>], r[2])
           /\ h_revs' = Append(h_revs, [root |-> r[2],
                                        keys |-> {h_leaves[a] : a \in DOMAIN h_leaves}])
    /\ UNCHANGED <<h_last, storeVars, stringVars, mapVars, callVars>>

(***************************************************************************)
(* Indirect strings written to a store directly, read back and compared    *)
(* (the IndirectString unit tests): serialize::write of an indirect        *)
(* string, write_body_and_patch_address, a bogus word written over an      *)
(* indirect string, get_sstring_view and operator==.                       *)
(***************************************************************************)
MaxSlots == 2       \* indirect strings written to the store
MaxPtrs == 2        \* shared pointers into the storage held at a time

NoResult == [op |-> "none", x |-> <<"none", 0>>, y |-> <<"none", 0>>, error |-> "none", view |-> <<>>, equal |-> "none"]

StringsInit ==
    /\ s_db = [logical |-> leader_size + trailer_size, regions |-> InitialStorage.regions,
               sat |-> InitialStorage.sat,
               mem |-> [a \in {leader_size} |-> InitialTrailer],
               file_size |-> PhysicalSize(InitialStorage.regions)]
    /\ s_slots = <<>>
    /\ s_result = NoResult

\* The word a test writes over an indirect string.
BogusWord == 1

Patched(i) == s_slots[i].body # 0
Bogus(i) == Obj(s_db.mem, s_slots[i].addr).val[1] = BogusWord

\* serialize::write (archive::make_writer (transaction), indirect_string{db, &view})
SWrite(v) ==
    /\ Len(s_slots) < MaxSlots
    /\ \E d \in {write_string_address(s_db, v)} :
           /\ s_db' = [logical |-> d.logical, regions |-> d.regions, sat |-> d.sat,
                       mem |-> d.mem, file_size |-> d.file_size]
           /\ s_slots' = Append(s_slots, [addr |-> d.addr, view |-> v, body |-> 0])
    /\ UNCHANGED <<s_result, storeVars, hamtVars, mapVars, callVars>>

\* indirect_string::write_body_and_patch_address (transaction, view, addr)
SPatch(i) ==
    /\ ~Patched(i) /\ ~Bogus(i)
    /\ \E d \in {write_body_and_patch_address(s_db, ViewChars(s_slots[i].view),
                                               s_slots[i].addr)} :
           /\ s_db' = [logical |-> d.logical, regions |-> d.regions, sat |-> d.sat,
                       mem |-> d.mem, file_size |-> d.file_size]
           /\ s_slots' = [s_slots EXCEPT ![i].body = d.addr]
    /\ UNCHANGED <<s_result, storeVars, hamtVars, mapVars, callVars>>

\* *db.getrw (typed_address<address> (indirect_addr)) = address{0x01}
SCorrupt(i) ==
    /\ ~Bogus(i)
    /\ s_db' = [s_db EXCEPT !.mem = Store(s_db.mem, s_slots[i].addr,
                                          [kind |-> "slot", size |-> address_size,
                                           val |-> <<BogusWord>>])]
    /\ UNCHANGED <<s_slots, s_result, storeVars, hamtVars, mapVars, callVars>>

\* get_sstring_view (db, typed_address<indirect_string>{indirect_addr}, &owner)
SRead(i) ==
    /\ \E r \in {get_sstring_view_indirect(s_db.mem, s_slots[i].addr)} :
           s_result' = [op |-> "read", x |-> <<"slot", i>>, y |-> <<"slot", i>>, error |-> r.error,
                        view |-> r.view, equal |-> "none"]
    /\ UNCHANGED <<s_db, s_slots, storeVars, hamtVars, mapVars, callVars>>

\* The indirect strings a caller may compare: one made from a view, or one read
\* from the store.
Operands ==
    {<<"view", v>> : v \in Views} \cup {<<"slot", i>> : i \in DOMAIN s_slots}

OperandValue(o) ==
    IF o[1] = "view" THEN indirect_string_of_view(o[2])
    ELSE indirect_string_read(s_db.mem, s_slots[o[2]].addr)

\* x == y
SEqual(x, y) ==
    /\ \A o \in {x, y} : o[1] = "slot" => ~Bogus(o[2])
    /\ \E out \in operator_eq(s_db.mem, OperandValue(x), OperandValue(y)) :
           s_result' = [op |-> "eq", x |-> x, y |-> y, error |-> "none", view |-> <<>>,
                        equal |-> out]
    /\ UNCHANGED <<s_db, s_slots, storeVars, hamtVars, mapVars, callVars>>

StringsNext ==
    \/ \E v \in Views : SWrite(v)
    \/ \E i \in DOMAIN s_slots : SPatch(i)
    \/ \E i \in DOMAIN s_slots : SCorrupt(i)
    \/ \E i \in DOMAIN s_slots : SRead(i)
    \/ \E x \in Operands, y \in Operands : SEqual(x, y)

(***************************************************************************)
(* A storage made with a region factory of its own, and the calls of       *)
(* map_bytes that grow and shrink it.                                      *)
(***************************************************************************)
NoFactory == [full |-> 0, min |-> 0]

\* The factories a storage is made with: full and minimum region sizes of a
\* few segments.
Factories ==
    {region_factory, [full |-> 2, min |-> 1], [full |-> 3, min |-> 1],
     [full |-> 2, min |-> 2], [full |-> 3, min |-> 2]}

\* The logical sizes given to map_bytes: at, just after and well after the
\* start of a segment.
LogicalSizes ==
    {k * segment_size + e : k \in 0..(MaxSegments - 1),
                            e \in {1, leader_size + trailer_size, 1048576, segment_size}}

\* The addresses given to address_to_pointer: the start of a segment and a
\* place inside it.
PointerAddrs == {k * segment_size + e : k \in 0..(MaxSegments - 1), e \in {0, address_size}}

\* address::segment and address::offset
address_segment(addr) == addr \div segment_size
address_offset(addr) == addr % segment_size

\* A memory block is known by a positive number.  A new mapping takes
\* addresses that no mapped block has: the n blocks mapped next.
RECURSIVE NewBlocks(_, _)
NewBlocks(mapped, n) ==
    IF n = 0 THEN <<>>
    ELSE LET b == CHOOSE x \in 1..(Cardinality(mapped) + 1) : x \notin mapped
         IN  <<b>> \o NewBlocks(mapped \cup {b}, n - 1)

\* The memory block of the region at file offset off.
BlockOf(rs, ids, off) == ids[CHOOSE k \in DOMAIN rs : rs[k].offset = off]

\* The blocks that the entries of the table own: value shares the ownership
\* of the region's data, and region holds the region, which owns its mapping.
SatOwners(st, rs, ids) ==
    {BlockOf(rs, ids, st[i].region) :
        i \in {j \in DOMAIN st : \E k \in DOMAIN rs : rs[k].offset = st[j].region}}

\* A block stays mapped as long as something owns it: a region of regions_,
\* an entry of the table or a shared pointer.  A shared pointer is
\* [owner, block, at]: the block whose ownership it shares (0: none), the
\* block it points into and the place in it.
Owners(ids, sat_owners, ptrs) ==
    SeqToSet(ids) \cup sat_owners \cup ({p.owner : p \in ptrs} \ {0})

\* storage::segment_base: the value of the segment's entry.
segment_base(st, rs, ids, segment) ==
    LET e == st[segment]
        b == BlockOf(rs, ids, e.region)
    IN  [owner |-> b, block |-> b, at |-> e.value]

\* storage::address_to_pointer: a pointer to segment base + offset that
\* shares the ownership of the segment base.
address_to_pointer_unowned(st, rs, ids, addr) ==
    LET sb == segment_base(st, rs, ids, address_segment(addr))
    IN  [owner |-> 0, block |-> sb.block, at |-> sb.at + address_offset(addr)]
address_to_pointer(st, rs, ids, addr) ==
    LET sb == segment_base(st, rs, ids, address_segment(addr))
    IN  [owner |-> sb.owner, block |-> sb.block, at |-> sb.at + address_offset(addr)]

\* No call was made yet.
NoCall == [op |-> "none", addr |-> 0, size |-> 0, last |-> 0, chunks |-> <<>>,
           spans |-> FALSE, ranges |-> {}]

\* The region of rs at file offset off.
RegionAt(rs, off) == rs[CHOOSE k \in DOMAIN rs : rs[k].offset = off]

\* storage::copy: the calls of the copier, in order.  A call is
\* [region, at, temp, size]: the region of the in-store pointer, its distance
\* from the region's base, the distance of the temp pointer from the p that
\* copy was given, and the number of bytes.
RECURSIVE CopyRest(_, _, _, _, _, _)
CopyRest(st, rs, segment, p, copy_size, size) ==
    IF size = 0 THEN <<>>
    ELSE LET inc == (copy_size + segment_size - 1) \div segment_size
             next_segment == segment + inc
             region == RegionAt(rs, st[next_segment].region)
             next_size == Min(size, region.size)
         IN  <<[region |-> region.offset, at |-> 0, temp |-> p, size |-> next_size]>>
             \o CopyRest(st, rs, next_segment, p + next_size, next_size, size - next_size)

RECURSIVE CopyBySegments(_, _, _, _)
CopyBySegments(st, addr, p, size) ==
    LET e == st[address_segment(addr)]
        n == Min(segment_size - address_offset(addr), size)
    IN  <<[region |-> e.region, at |-> e.value + address_offset(addr), temp |-> p,
           size |-> n]>>
        \o (IF size - n = 0 THEN <<>> ELSE CopyBySegments(st, addr + n, p + n, size - n))

copy_by_segments(st, rs, addr, size) == CopyBySegments(st, addr, 0, size)
copy(st, rs, addr, size) ==
    LET segment == address_segment(addr)
        segment_pointer == st[segment]
        region == RegionAt(rs, segment_pointer.region)
        in_store_ptr == segment_pointer.value + address_offset(addr)
        copy_size == Min(region.size - in_store_ptr, size)
    IN  <<[region |-> region.offset, at |-> in_store_ptr, temp |-> 0, size |-> copy_size]>>
        \o CopyRest(st, rs, segment, copy_size, copy_size, size - copy_size)

\* storage::request_spans_regions, PSTORE_ALWAYS_SPANNING not being defined.
request_spans_regions_to_end(st, addr, size) ==
    IF size = 0 THEN FALSE
    ELSE st[address_segment(addr)].region # st[address_segment(addr + size)].region
request_spans_regions(st, addr, size) ==
    IF size = 0 THEN FALSE
    ELSE st[address_segment(addr)].region # st[address_segment(addr + size - 1)].region

\* The addresses and sizes given to copy and request_spans_regions: at and
\* next to the start and the end of a segment; nothing, a few bytes, one
\* segment and more.
CopyAddrs ==
    {k * segment_size + e : k \in 0..(MaxSegments - 1),
                            e \in {0, address_size, segment_size - address_size}}
CopySizes ==
    {0, address_size, 2 * address_size, segment_size, segment_size + 2 * address_size,
     2 * segment_size + 2 * address_size}

\* The addresses given to protect: in the header, at and next to page and
\* segment boundaries.
ProtectAddrs ==
    {0, address_size, leader_size, page_size, page_size + address_size, 2 * page_size,
     segment_size - address_size, segment_size, segment_size + page_size + address_size}

\* region::read_only (ptr, len) for each range: the pages made read-only are
\* those the range overlaps.
read_only(ranges) ==
    {pg \in 0..((MaxSegments + 1) * (segment_size \div page_size) - 1) :
        \E r \in ranges : r[1] < (pg + 1) * page_size /\ pg * page_size < r[2]}

StorageInit ==
    /\ g_factory = NoFactory
    /\ g_logical = 0
    /\ g_regions = <<>>
    /\ g_sat = EmptySat
    /\ g_dropped = {}
    /\ g_ids = <<>>
    /\ g_ptrs = {}
    /\ g_mapped = {}
    /\ g_call = NoCall

\* storage::storage: the storage is made; nothing is mapped yet.
GOpen(f) ==
    /\ g_factory = NoFactory
    /\ g_factory' = f
    /\ UNCHANGED <<g_logical, g_regions, g_sat, g_dropped, g_ids, g_ptrs, g_mapped, g_call,
                   storeVars, hamtVars, stringVars, callVars>>

\* storage::map_bytes (old_logical_size, new_logical_size), old_logical_size
\* being the size given last.
GMapBytes(new_logical_size) ==
    /\ g_factory # NoFactory
    /\ new_logical_size # g_logical
    /\ \E st \in {map_bytes(g_factory, g_regions, g_sat, g_logical, new_logical_size)} :
           /\ PhysicalSize(st.regions) <= (MaxSegments + 1) * segment_size
           /\ g_regions' = st.regions
           /\ g_sat' = st.sat
           /\ g_dropped' = SeqToSet(g_regions) \ SeqToSet(st.regions)
           /\ LET ids == IF Len(st.regions) >= Len(g_regions)
                         THEN g_ids \o NewBlocks(g_mapped, Len(st.regions) - Len(g_regions))
                         ELSE SubSeq(g_ids, 1, Len(st.regions))
              IN  /\ g_ids' = ids
                  /\ g_mapped' = Owners(ids, SatOwners(st.sat, g_regions \o st.regions,
                                                       g_ids \o ids), g_ptrs)
    /\ g_logical' = new_logical_size
    /\ g_call' = NoCall
    /\ UNCHANGED <<g_factory, g_ptrs, storeVars, hamtVars, stringVars, callVars>>

\* storage::address_to_pointer (addr): the caller keeps the shared pointer.
GAddressToPointer(addr) ==
    /\ g_sat[address_segment(addr)] # NullEntry
    /\ Cardinality(g_ptrs) < MaxPtrs
    /\ g_ptrs' = g_ptrs \cup {address_to_pointer(g_sat, g_regions, g_ids, addr)}
    /\ g_mapped' = Owners(g_ids, SatOwners(g_sat, g_regions, g_ids), g_ptrs')
    /\ UNCHANGED <<g_factory, g_logical, g_regions, g_sat, g_dropped, g_ids, g_call,
                   storeVars, hamtVars, stringVars, callVars>>

\* The caller releases a shared pointer it was given.
GRelease(p) ==
    /\ p \in g_ptrs
    /\ g_ptrs' = g_ptrs \ {p}
    /\ g_mapped' = Owners(g_ids, SatOwners(g_sat, g_regions, g_ids), g_ptrs')
    /\ UNCHANGED <<g_factory, g_logical, g_regions, g_sat, g_dropped, g_ids, g_call,
                   storeVars, hamtVars, stringVars, callVars>>

StorageNext ==
    \/ \E f \in Factories : GOpen(f)
    \/ \E n \in LogicalSizes : GMapBytes(n)
    \/ \E a \in PointerAddrs : GAddressToPointer(a)
    \/ \E p \in g_ptrs : GRelease(p)

\* storage::copy (addr, size, p, copier), the copier noting its calls.
GCopy(addr, size) ==
    /\ g_factory # NoFactory
    /\ addr < g_logical /\ addr + size <= g_logical
    /\ g_call' = [NoCall EXCEPT !.op = "copy", !.addr = addr, !.size = size,
                                !.chunks = copy(g_sat, g_regions, addr, size)]
    /\ UNCHANGED <<g_factory, g_logical, g_regions, g_sat, g_dropped, g_ids, g_ptrs,
                   g_mapped, storeVars, hamtVars, stringVars, callVars>>

\* storage::request_spans_regions (addr, size); no caller asks about no bytes
\* at the null address.
GRequestSpans(addr, size) ==
    /\ g_factory # NoFactory
    /\ addr < g_logical /\ addr + size <= g_logical
    /\ addr + size > 0
    /\ g_call' = [NoCall EXCEPT !.op = "spans", !.addr = addr, !.size = size,
                                !.spans = request_spans_regions(g_sat, addr, size)]
    /\ UNCHANGED <<g_factory, g_logical, g_regions, g_sat, g_dropped, g_ids, g_ptrs,
                   g_mapped, storeVars, hamtVars, stringVars, callVars>>

\* storage::protect (first, last)
GProtect(first, last) ==
    /\ g_factory # NoFactory
    /\ first <= last /\ last <= g_logical
    /\ g_call' = [NoCall EXCEPT !.op = "protect", !.addr = first, !.last = last,
                                !.ranges = protect(g_regions, first, last)]
    /\ UNCHANGED <<g_factory, g_logical, g_regions, g_sat, g_dropped, g_ids, g_ptrs,
                   g_mapped, storeVars, hamtVars, stringVars, callVars>>

\* The storage as its callers read it: mapped, copied from, asked whether a
\* request spans regions, and protected.
AccessNext ==
    \/ \E f \in Factories : GOpen(f)
    \/ \E n \in LogicalSizes : GMapBytes(n)
    \/ \E a \in CopyAddrs, n \in CopySizes : GCopy(a, n)
    \/ \E a \in CopyAddrs, n \in CopySizes : GRequestSpans(a, n)
    \/ \E first \in ProtectAddrs, last \in ProtectAddrs \cup {g_logical} : GProtect(first, last)

(***************************************************************************)
(* range_lock objects (file.cpp) of one process on one file.  A range_lock *)
(* is [alive, has_file, range, locked]: has_file tells that file_ is not   *)
(* null, range stands for offset_ and size_, locked is locked_.  Each      *)
(* range_lock is made for a range that no other holds.  The file answers   *)
(* a lock as file_handle::lock does, and keeps, per range, whether it is   *)
(* locked.                                                                 *)
(***************************************************************************)
NumHolders == 2     \* range_lock objects alive at a time

Holders == 1..NumHolders
Ranges == 1..NumHolders
NoHolder == [alive |-> FALSE, has_file |-> FALSE, range |-> 0, locked |-> FALSE]
NoLockCall == [op |-> "none", holder |-> 0, other |-> 0, was_locked |-> FALSE,
               repeated |-> FALSE, result |-> FALSE, file_locks |-> 0, file_unlocks |-> 0,
               unlocked_range |-> 0, unheld |-> FALSE]

RangeLockInit ==
    /\ k_holders = [h \in Holders |-> NoHolder]
    /\ k_held = [r \in Ranges |-> FALSE]
    /\ k_last = NoLockCall

\* range_lock::range_lock (range_lock && other): [this, other] afterwards.
range_lock_move_copying(other) ==
    [this |-> [other EXCEPT !.alive = TRUE], other |-> other]
range_lock_move(other) ==
    [this |-> [other EXCEPT !.alive = TRUE],
     other |-> [other EXCEPT !.has_file = FALSE, !.locked = FALSE]]

\* range_lock::operator= (range_lock && other), other being another object:
\* this is unlocked, then takes what other has.
range_lock_assign(this, other) ==
    LET u == range_lock_unlock(this.locked, this.has_file)
        m == range_lock_move(other)
    IN  [unlock_file |-> u.unlock_file, this |-> m.this, other |-> m.other]

\* The file's unlock of a range.
FileUnlock(held, r) == [held EXCEPT ![r] = FALSE]

\* range_lock::range_lock (file, offset, size, kind)
KConstruct(h, r) ==
    /\ ~k_holders[h].alive
    /\ \A g \in Holders : ~(k_holders[g].alive /\ k_holders[g].has_file /\ k_holders[g].range = r)
    /\ k_holders' = [k_holders EXCEPT ![h] = [alive |-> TRUE, has_file |-> TRUE, range |-> r,
                                               locked |-> FALSE]]
    /\ k_last' = [NoLockCall EXCEPT !.op = "construct", !.holder = h]
    /\ UNCHANGED <<k_held, p_call, renameVars, lateVars, storeVars, hamtVars, stringVars, mapVars>>

\* range_lock::lock (block = "blocking") and range_lock::try_lock
\* ("non_blocking").  A blocking lock returns once the range is free.
KLock(h, block) ==
    /\ k_holders[h].alive
    /\ \E err \in (IF block = "non_blocking" THEN {0, EAGAIN, EACCES} ELSE {0}) :
        LET me == k_holders[h]
            r == file_handle_lock(err, block)
            l == lock_impl(me.locked, me.has_file, r.got_lock)
        IN  /\ k_holders' = [k_holders EXCEPT ![h].locked = l.locked]
            /\ k_held' = IF l.lock_file /\ r.got_lock
                          THEN [k_held EXCEPT ![me.range] = TRUE] ELSE k_held
            /\ k_last' = [NoLockCall EXCEPT
                            !.op = IF block = "blocking" THEN "lock" ELSE "try_lock",
                            !.holder = h, !.was_locked = me.locked, !.result = l.result,
                            !.file_locks = IF l.lock_file THEN 1 ELSE 0]
    /\ UNCHANGED <<p_call, renameVars, lateVars, storeVars, hamtVars, stringVars, mapVars>>

\* What an unlock of the range_lock me leaves of the file's ranges and tells of
\* itself.
Unlocked(me, call) ==
    LET u == range_lock_unlock(me.locked, me.has_file)
    IN  [held |-> IF u.unlock_file THEN FileUnlock(k_held, me.range) ELSE k_held,
         locked |-> u.locked,
         call |-> [call EXCEPT !.was_locked = me.locked,
                               !.file_unlocks = IF u.unlock_file THEN 1 ELSE 0,
                               !.unlocked_range = IF u.unlock_file THEN me.range ELSE 0,
                               !.unheld = u.unlock_file /\ ~k_held[me.range]]]

\* range_lock::unlock
KUnlock(h) ==
    /\ k_holders[h].alive
    /\ LET u == Unlocked(k_holders[h],
                         [NoLockCall EXCEPT !.op = "unlock", !.holder = h,
                             !.repeated = (k_last.op = "unlock" /\ k_last.holder = h)])
       IN  /\ k_holders' = [k_holders EXCEPT ![h].locked = u.locked]
           /\ k_held' = u.held
           /\ k_last' = u.call
    /\ UNCHANGED <<p_call, renameVars, lateVars, storeVars, hamtVars, stringVars, mapVars>>

\* range_lock::~range_lock
KDestroy(h) ==
    /\ k_holders[h].alive
    /\ LET u == Unlocked(k_holders[h], [NoLockCall EXCEPT !.op = "destroy", !.holder = h])
       IN  /\ k_holders' = [k_holders EXCEPT ![h] = NoHolder]
           /\ k_held' = u.held
           /\ k_last' = u.call
    /\ UNCHANGED <<p_call, renameVars, lateVars, storeVars, hamtVars, stringVars, mapVars>>

\* range_lock::range_lock (range_lock && other): a new object h is made from src.
KMoveConstruct(h, src) ==
    /\ ~k_holders[h].alive
    /\ k_holders[src].alive
    /\ LET m == range_lock_move(k_holders[src])
       IN  k_holders' = [k_holders EXCEPT ![h] = m.this, ![src] = m.other]
    /\ k_last' = [NoLockCall EXCEPT !.op = "move_construct", !.holder = h, !.other = src]
    /\ UNCHANGED <<k_held, p_call, renameVars, lateVars, storeVars, hamtVars, stringVars, mapVars>>

\* range_lock::operator= (range_lock && other); an object assigned to itself
\* is left as it is.
KMoveAssign(h, src) ==
    /\ k_holders[h].alive
    /\ k_holders[src].alive
    /\ IF h = src
       THEN /\ k_last' = [NoLockCall EXCEPT !.op = "move_assign", !.holder = h, !.other = src]
            /\ UNCHANGED <<k_holders, k_held>>
       ELSE LET me == k_holders[h]
                a == range_lock_assign(me, k_holders[src])
            IN  /\ k_holders' = [k_holders EXCEPT ![h] = a.this, ![src] = a.other]
                /\ k_held' = IF a.unlock_file THEN FileUnlock(k_held, me.range) ELSE k_held
                /\ k_last' = [NoLockCall EXCEPT
                                !.op = "move_assign", !.holder = h, !.other = src,
                                !.was_locked = me.locked,
                                !.file_unlocks = IF a.unlock_file THEN 1 ELSE 0,
                                !.unlocked_range = IF a.unlock_file THEN me.range ELSE 0,
                                !.unheld = a.unlock_file /\ ~k_held[me.range]]
    /\ UNCHANGED <<p_call, renameVars, lateVars, storeVars, hamtVars, stringVars, mapVars>>

RangeLockNext ==
    \/ \E h \in Holders, r \in Ranges : KConstruct(h, r)
    \/ \E h \in Holders, block \in {"blocking", "non_blocking"} : KLock(h, block)
    \/ \E h \in Holders : KUnlock(h)
    \/ \E h \in Holders : KDestroy(h)
    \/ \E h, src \in Holders : KMoveConstruct(h, src)
    \/ \E h, src \in Holders : KMoveAssign(h, src)

(***************************************************************************)
(* file_handle::rename and rename_noreplace (file_posix.cpp).  The file    *)
(* system is a function from paths to files (0: no file).  The handle's    *)
(* file is OwnFile; another process makes and removes the file OtherFile   *)
(* at any time, between two system calls of a rename too.  Which of the    *)
(* calls the platform and the file system support is open: a call may      *)
(* answer that it is unavailable, or fail for another reason.              *)
(***************************************************************************)
EPERM == 1
ENOENT == 2
EEXIST == 17
EINVAL == 22
ENOTTY == 25
ENOSYS == 38

Paths == 1..2
OwnFile == 1
OtherFile == 2
NoRename == [result |-> "none", err |-> 0, via |-> "none", replaced |-> FALSE]

RenameInit ==
    /\ n_fs = [p \in Paths |-> IF p = 1 THEN OwnFile ELSE 0]
    /\ n_path = 1
    /\ n_pc = "idle"
    /\ n_new = 0
    /\ n_last = NoRename

\* The lambda is_unavailable of rename_noreplace: it tests its argument e and
\* errno.
is_unavailable(e, errno) == e = EINVAL \/ errno = ENOSYS \/ errno = ENOTTY

\* file_handle::rename, from the value of rename_noreplace on: the new path_
\* and what the caller gets.
file_handle_rename_always_renamed(path, new_name, ret) ==
    [path |-> new_name,
     result |-> IF ret >= 0 THEN "true" ELSE IF -ret = EEXIST THEN "false" ELSE "raised"]
file_handle_rename(path, new_name, ret) ==
    IF ret >= 0 THEN [path |-> new_name, result |-> "true"]
    ELSE IF -ret = EEXIST THEN [path |-> path, result |-> "false"]
    ELSE [path |-> path, result |-> "raised"]

\* rename_noreplace returns ret: the rename in progress ends.
RenameReturns(ret, via, replaced) ==
    LET r == file_handle_rename(n_path, n_new, ret)
    IN  /\ n_path' = r.path
        /\ n_last' = [result |-> r.result, err |-> IF ret >= 0 THEN 0 ELSE -ret, via |-> via,
                      replaced |-> replaced]
        /\ n_pc' = "idle"
        /\ n_new' = 0

\* The file system after the file at old is given the name new instead.
Renamed(fs, old, new) ==
    IF old = new THEN fs ELSE [fs EXCEPT ![new] = fs[old], ![old] = 0]

\* file_handle::rename (new_name) is called.
NRename(new) ==
    /\ n_pc = "idle"
    /\ n_pc' = "renameat2"
    /\ n_new' = new
    /\ UNCHANGED <<n_fs, n_path, n_last>>
    /\ UNCHANGED <<p_call, rangeLockVars, lateVars, storeVars, hamtVars, stringVars, mapVars>>

\* renamex_np or renameat2 with the flag that forbids replacing, or neither on
\* a platform that has none (err is then EINVAL).
NPreferred(err) ==
    /\ n_pc = "renameat2"
    /\ IF err = 0 /\ n_fs[n_new] = 0
       THEN /\ n_fs' = Renamed(n_fs, n_path, n_new)
            /\ RenameReturns(0, "renameat2", FALSE)
       ELSE LET e == IF err = 0 THEN EEXIST ELSE err
            IN  IF ~is_unavailable(e, e)
                THEN /\ RenameReturns(-e, "renameat2", FALSE)
                     /\ UNCHANGED n_fs
                ELSE /\ n_pc' = "linkat"
                     /\ UNCHANGED <<n_fs, n_path, n_new, n_last>>
    /\ UNCHANGED <<p_call, rangeLockVars, lateVars, storeVars, hamtVars, stringVars, mapVars>>

\* linkat (old_path, new_path)
NLink(err) ==
    /\ n_pc = "linkat"
    /\ IF err = 0 /\ n_fs[n_new] = 0
       THEN /\ n_fs' = [n_fs EXCEPT ![n_new] = n_fs[n_path]]
            /\ n_pc' = "unlinkat"
            /\ UNCHANGED <<n_path, n_new, n_last>>
       ELSE LET e == IF err = 0 THEN EEXIST ELSE err
            IN  IF ~is_unavailable(e, e) /\ e # EPERM
                THEN /\ RenameReturns(-e, "linkat", FALSE)
                     /\ UNCHANGED n_fs
                ELSE /\ n_pc' = "faccessat"
                     /\ UNCHANGED <<n_fs, n_path, n_new, n_last>>
    /\ UNCHANGED <<p_call, rangeLockVars, lateVars, storeVars, hamtVars, stringVars, mapVars>>

\* unlinkat (old_path) after the link was made; if it fails the link is
\* removed again.
NUnlink(err) ==
    /\ n_pc = "unlinkat"
    /\ IF err = 0
       THEN /\ n_fs' = [n_fs EXCEPT ![n_path] = 0]
            /\ RenameReturns(0, "linkat", FALSE)
       ELSE /\ n_fs' = [n_fs EXCEPT ![n_new] = 0]
            /\ RenameReturns(-err, "linkat", FALSE)
    /\ UNCHANGED <<p_call, rangeLockVars, lateVars, storeVars, hamtVars, stringVars, mapVars>>

\* faccessat (new_path, F_OK)
NAccess(err) ==
    /\ n_pc = "faccessat"
    /\ IF err = 0 /\ n_fs[n_new] # 0
       THEN /\ RenameReturns(-EEXIST, "renameat", FALSE)
            /\ UNCHANGED n_fs
       ELSE LET errno == IF err = 0 THEN ENOENT ELSE err
            IN  IF errno # ENOENT
                THEN /\ RenameReturns(-errno, "renameat", FALSE)
                     /\ UNCHANGED n_fs
                ELSE /\ n_pc' = "renameat"
                     /\ UNCHANGED <<n_fs, n_path, n_new, n_last>>
    /\ UNCHANGED <<p_call, rangeLockVars, lateVars, storeVars, hamtVars, stringVars, mapVars>>

\* renameat (old_path, new_path), which replaces a file at new_path.
NRenameat(err) ==
    /\ n_pc = "renameat"
    /\ IF err = 0
       THEN /\ n_fs' = Renamed(n_fs, n_path, n_new)
            /\ RenameReturns(0, "renameat", n_new # n_path /\ n_fs[n_new] # 0)
       ELSE /\ RenameReturns(-err, "renameat", FALSE)
            /\ UNCHANGED n_fs
    /\ UNCHANGED <<p_call, rangeLockVars, lateVars, storeVars, hamtVars, stringVars, mapVars>>

\* Another process makes a file at a path that names none, or removes the
\* file it made.
NOtherCreates(p) ==
    /\ n_fs[p] = 0
    /\ \A q \in Paths : n_fs[q] # OtherFile
    /\ n_fs' = [n_fs EXCEPT ![p] = OtherFile]
    /\ UNCHANGED <<n_path, n_pc, n_new, n_last>>
    /\ UNCHANGED <<p_call, rangeLockVars, lateVars, storeVars, hamtVars, stringVars, mapVars>>

NOtherRemoves(p) ==
    /\ n_fs[p] = OtherFile
    /\ n_fs' = [n_fs EXCEPT ![p] = 0]
    /\ UNCHANGED <<n_path, n_pc, n_new, n_last>>
    /\ UNCHANGED <<p_call, rangeLockVars, lateVars, storeVars, hamtVars, stringVars, mapVars>>

RenameNext ==
    \/ \E new \in Paths : NRename(new)
    \/ \E err \in {0, EINVAL, ENOSYS, EACCES} : NPreferred(err)
    \/ \E err \in {0, EPERM, EACCES} : NLink(err)
    \/ \E err \in {0, EACCES} : NUnlink(err)
    \/ \E err \in {0, EACCES} : NAccess(err)
    \/ \E err \in {0, EACCES} : NRenameat(err)
    \/ \E p \in Paths : NOtherCreates(p)
    \/ \E p \in Paths : NOtherRemoves(p)

(***************************************************************************)
(* broker::shutdown and the quit thread (lib/broker/quit.cpp).  The quit   *)
(* thread waits to be notified of a signal, clears the queue of the        *)
(* command processor and calls shutdown; a self-quit request calls         *)
(* shutdown from the command processor.  The callers run concurrently: a   *)
(* step is one access to the flag done or one command pushed.  The states  *)
(* of the gc watcher, the scavenger and the status server are not          *)
(* modelled.                                                               *)
(***************************************************************************)
num_read_threads == 2
NumSelfQuitters == 1
MaxShutdownCalls == 2

QuitThread == 0
Callers == 0..NumSelfQuitters
read_loop_quit_command == "_QUIT"
command_loop_quit_command == "_CQUIT"

ShutdownInit ==
    /\ q_done = FALSE
    /\ q_signal = "none"
    /\ q_pc = [c \in Callers |-> IF c = QuitThread THEN "waiting" ELSE "idle"]
    /\ q_cp = [c \in Callers |-> TRUE]
    /\ q_ctr = [c \in Callers |-> 0]
    /\ q_calls = [c \in Callers |-> 0]
    /\ q_queue = <<>>
    /\ q_log = <<>>

ShutdownFrame == UNCHANGED <<p_call, rangeLockVars, renameVars, inMemoryVars, optionVars,
                             storeVars, hamtVars, stringVars, mapVars>>

\* done.store (true) in place of the exchange: every caller is told it was
\* the first.
compare_exchange_unconditional(done, expected, desired) ==
    [success |-> TRUE, done |-> desired]

\* std::atomic<bool>::compare_exchange_strong, as shutdown calls it: the flag
\* takes the desired value if it holds the expected one.
compare_exchange_strong(done, expected, desired) ==
    IF done = expected THEN [success |-> TRUE, done |-> desired]
                       ELSE [success |-> FALSE, done |-> done]

\* push (cp, message): logs the command and pushes it onto the queue.
Pushed(c, message) ==
    /\ q_log' = Append(q_log, [caller |-> c, what |-> message])
    /\ q_queue' = Append(q_queue, message)

\* signal_handler (sig) and notify_quit_thread (): quit_info.notify.
QNotify(sig) ==
    /\ q_signal = "none"
    /\ q_signal' = sig
    /\ UNCHANGED <<q_done, q_pc, q_cp, q_ctr, q_calls, q_queue, q_log>>
    /\ ShutdownFrame

\* quit_thread, from quit_info.wait () to the call of shutdown: cp.lock ()
\* yields the command processor if it is still alive, and its queue is
\* cleared.
QWake(alive) ==
    /\ q_pc[QuitThread] = "waiting"
    /\ q_signal # "none"
    /\ q_cp' = [q_cp EXCEPT ![QuitThread] = alive]
    /\ q_queue' = IF alive THEN <<>> ELSE q_queue
    /\ q_pc' = [q_pc EXCEPT ![QuitThread] = "call"]
    /\ q_calls' = [q_calls EXCEPT ![QuitThread] = @ + 1]
    /\ UNCHANGED <<q_done, q_signal, q_ctr, q_log>>
    /\ ShutdownFrame

\* A self-quit request: the command processor calls shutdown with itself.
QSelfQuit(c) ==
    /\ c # QuitThread
    /\ q_pc[c] \in {"idle", "returned"}
    /\ q_calls[c] < MaxShutdownCalls
    /\ q_pc' = [q_pc EXCEPT ![c] = "call"]
    /\ q_calls' = [q_calls EXCEPT ![c] = @ + 1]
    /\ UNCHANGED <<q_done, q_signal, q_cp, q_ctr, q_queue, q_log>>
    /\ ShutdownFrame

\* shutdown: the exchange on done.  The caller that finds the flag clear goes
\* on to the sequence; any other returns.
QEnter(c) ==
    LET x == compare_exchange_strong(q_done, FALSE, TRUE)
    IN  /\ q_pc[c] = "call"
        /\ q_done' = x.done
        /\ IF x.success
             THEN /\ q_log' = Append(q_log, [caller |-> c, what |-> "performing shutdown"])
                  /\ q_pc' = [q_pc EXCEPT ![c] = IF q_cp[c] THEN "push" ELSE "status"]
                  /\ q_ctr' = [q_ctr EXCEPT ![c] = 0]
             ELSE /\ q_pc' = [q_pc EXCEPT ![c] = "returned"]
                  /\ UNCHANGED <<q_log, q_ctr>>
        /\ UNCHANGED <<q_signal, q_cp, q_calls, q_queue>>
        /\ ShutdownFrame

\* shutdown: one turn of the loop that asks the read-loop threads to quit.
QPushReadLoopQuit(c) ==
    /\ q_pc[c] = "push"
    /\ q_ctr[c] < num_read_threads
    /\ Pushed(c, read_loop_quit_command)
    /\ q_ctr' = [q_ctr EXCEPT ![c] = @ + 1]
    /\ UNCHANGED <<q_done, q_signal, q_pc, q_cp, q_calls>>
    /\ ShutdownFrame

\* shutdown: after the loop, the command loop thread is asked to exit.
QPushCommandLoopQuit(c) ==
    /\ q_pc[c] = "push"
    /\ q_ctr[c] >= num_read_threads
    /\ Pushed(c, command_loop_quit_command)
    /\ q_pc' = [q_pc EXCEPT ![c] = "status"]
    /\ UNCHANGED <<q_done, q_signal, q_cp, q_ctr, q_calls>>
    /\ ShutdownFrame

\* shutdown: ask_status_server_to_exit and the closing log line.
QComplete(c) ==
    /\ q_pc[c] = "status"
    /\ q_log' = Append(q_log, [caller |-> c, what |-> "shutdown requests complete"])
    /\ q_pc' = [q_pc EXCEPT ![c] = "returned"]
    /\ UNCHANGED <<q_done, q_signal, q_cp, q_ctr, q_calls, q_queue>>
    /\ ShutdownFrame

ShutdownNext ==
    \/ \E sig \in {"SIGINT", "SIGTERM", "sig_self_quit"} : QNotify(sig)
    \/ \E alive \in BOOLEAN : QWake(alive)
    \/ \E c \in Callers : QSelfQuit(c)
    \/ \E c \in Callers : QEnter(c)
    \/ \E c \in Callers : QPushReadLoopQuit(c)
    \/ \E c \in Callers : QPushCommandLoopQuit(c)
    \/ \E c \in Callers : QComplete(c)

(***************************************************************************)
(* The in-memory file (lib/os/file.cpp, class in_memory): a buffer of      *)
(* length_ bytes of which the first eof_ are the file, and the position    *)
(* pos_.  The bytes of the buffer are not modelled.                        *)
(*                                                                         *)
(* A std::size_t or std::uint64_t stands as the integer v when it is near  *)
(* zero and as v - 2^64 when it is near 2^64: sums and differences are     *)
(* then those of the integers, as long as they stay near zero or near      *)
(* 2^64, and the unsigned comparison is ult.                               *)
(***************************************************************************)
MaxBufferLength == 3

ult(a, b) == IF (a >= 0) = (b >= 0) THEN a < b ELSE a >= 0
ugt(a, b) == ult(b, a)
umin(a, b) == IF ult(b, a) THEN b ELSE a

\* The arguments given to the calls: the small sizes, and the sizes just
\* below 2^64.
SizeInputs == (0..(MaxBufferLength + 1)) \cup {0 - k : k \in 1..2}

NoFile == [state |-> "none", debug |-> FALSE, writable |-> FALSE, length |-> 0, eof |-> 0,
           pos |-> 0]
NoFileCall == [op |-> "none", arg |-> 0, result |-> "none", nbytes |-> 0]

InMemoryInit ==
    /\ m_file = NoFile
    /\ m_last = NoFileCall

InMemoryFrame == UNCHANGED <<p_call, rangeLockVars, renameVars, shutdownVars, optionVars,
                             storeVars, hamtVars, stringVars, mapVars>>

\* How a call ends: it returns, it raises an error, or an assertion of a
\* build without NDEBUG stops the program.
Returns(f, nbytes) == [file |-> f, result |-> "ok", nbytes |-> nbytes]
Raises(f, errc) == [file |-> f, result |-> errc, nbytes |-> 0]
AssertionFails(f) == [file |-> [f EXCEPT !.state = "aborted"], result |-> "assertion",
                      nbytes |-> 0]

\* in_memory::read_buffer (ptr, nbytes).
read_buffer(f, nbytes) ==
    LET n == IF ugt(f.pos + nbytes, f.eof) \/ ult(f.pos + nbytes, f.pos)
               THEN f.eof - f.pos
               ELSE nbytes
    IN  Returns([f EXCEPT !.pos = f.pos + n], n)

\* in_memory::write_buffer (ptr, nbytes).
write_buffer(f, nbytes) ==
    IF ~f.writable THEN Raises(f, "permission_denied")
    ELSE IF f.debug /\ ~ugt(f.length, f.pos) THEN AssertionFails(f)
    ELSE IF ugt(nbytes, f.length - f.pos) THEN Raises(f, "invalid_argument")
    ELSE LET pos == f.pos + nbytes
         IN  Returns([f EXCEPT !.pos = pos, !.eof = IF ugt(pos, f.eof) THEN pos ELSE f.eof],
                     nbytes)

\* seek without the test of the position against eof_.
seek_unchecked(f, position) == Returns([f EXCEPT !.pos = position], 0)

\* in_memory::seek (position).
seek(f, position) ==
    IF ugt(position, f.eof) THEN Raises(f, "invalid_argument")
    ELSE Returns([f EXCEPT !.pos = position], 0)

\* in_memory::truncate (size).
truncate(f, size) ==
    IF f.debug /\ ~(~ugt(f.eof, f.length) /\ ~ugt(f.pos, f.eof)) THEN AssertionFails(f)
    ELSE IF ~f.writable THEN Raises(f, "permission_denied")
    ELSE IF ugt(size, f.length) THEN Raises(f, "invalid_argument")
    ELSE Returns([f EXCEPT !.eof = size, !.pos = umin(f.pos, size)], 0)

Called(op, arg, r) ==
    /\ m_file' = r.file
    /\ m_last' = [op |-> op, arg |-> arg, result |-> r.result, nbytes |-> r.nbytes]
    /\ InMemoryFrame

\* The in_memory constructor: a buffer of the given length of which the first
\* eof bytes are the file, in a build with or without assertions.
MOpen(length, eof, writable, debug) ==
    /\ m_file.state = "none"
    /\ eof <= length
    /\ m_file' = [state |-> "open", debug |-> debug, writable |-> writable, length |-> length,
                  eof |-> eof, pos |-> 0]
    /\ m_last' = [NoFileCall EXCEPT !.op = "open"]
    /\ InMemoryFrame

MRead(nbytes) == m_file.state = "open" /\ Called("read_buffer", nbytes, read_buffer(m_file, nbytes))
MWrite(nbytes) ==
    m_file.state = "open" /\ Called("write_buffer", nbytes, write_buffer(m_file, nbytes))
MSeek(position) == m_file.state = "open" /\ Called("seek", position, seek(m_file, position))
MTruncate(size) == m_file.state = "open" /\ Called("truncate", size, truncate(m_file, size))

InMemoryNext ==
    \/ \E length \in 0..MaxBufferLength, eof \in 0..MaxBufferLength, writable \in BOOLEAN,
          debug \in BOOLEAN : MOpen(length, eof, writable, debug)
    \/ \E nbytes \in SizeInputs : MRead(nbytes)
    \/ \E nbytes \in SizeInputs : MWrite(nbytes)
    \/ \E position \in SizeInputs : MSeek(position)
    \/ \E size \in SizeInputs : MTruncate(size)

(***************************************************************************)
(* Command-line options (lib/command_line/option.cpp): the occurrences     *)
(* flag of an option, the count of its occurrences on the command line,    *)
(* and the two queries on them.                                            *)
(***************************************************************************)
NumOptions == 2
MaxOccurrences == 3

Options == 1..NumOptions
num_occurrences_flag == {"optional", "zero_or_more", "required", "one_or_more"}
NoOption == [made |-> FALSE, occurrences_ |-> "optional", num_occurrences_ |-> 0]
NoQuery == [op |-> "none", option |-> 0, occurrences_ |-> "optional", num_occurrences_ |-> 0,
            result |-> FALSE]

OptionInit ==
    /\ o_options = [o \in Options |-> NoOption]
    /\ o_last = NoQuery

OptionFrame == UNCHANGED <<p_call, rangeLockVars, renameVars, shutdownVars, inMemoryVars,
                           storeVars, hamtVars, stringVars, mapVars>>

\* option::is_satisfied.
is_satisfied(opt) ==
    CASE opt.occurrences_ = "required" -> opt.num_occurrences_ >= 1
      [] opt.occurrences_ = "one_or_more" -> opt.num_occurrences_ > 1
      [] OTHER -> TRUE

\* option::can_accept_another_occurrence.
can_accept_another_occurrence(opt) ==
    CASE opt.occurrences_ \in {"optional", "required"} -> opt.num_occurrences_ = 0
      [] OTHER -> TRUE

Queried(op, o, result) ==
    [op |-> op, option |-> o, occurrences_ |-> o_options[o].occurrences_,
     num_occurrences_ |-> o_options[o].num_occurrences_, result |-> result]

\* option::option (occurrences): an option that has not occurred yet.
OConstruct(o, occurrences) ==
    /\ ~o_options[o].made
    /\ o_options' = [o_options EXCEPT ![o] = [made |-> TRUE, occurrences_ |-> occurrences,
                                               num_occurrences_ |-> 0]]
    /\ UNCHANGED o_last
    /\ OptionFrame

\* option::set_num_occurrences_flag (n).
OSetNumOccurrencesFlag(o, n) ==
    /\ o_options[o].made
    /\ o_options' = [o_options EXCEPT ![o].occurrences_ = n]
    /\ UNCHANGED o_last
    /\ OptionFrame

\* option::add_occurrence: the option was met on the command line once more.
OAddOccurrence(o) ==
    /\ o_options[o].made
    /\ o_options[o].num_occurrences_ < MaxOccurrences
    /\ o_options' = [o_options EXCEPT ![o].num_occurrences_ = @ + 1]
    /\ o_last' = Queried("add_occurrence", o, TRUE)
    /\ OptionFrame

OIsSatisfied(o) ==
    /\ o_options[o].made
    /\ o_last' = Queried("is_satisfied", o, is_satisfied(o_options[o]))
    /\ UNCHANGED o_options
    /\ OptionFrame

OCanAcceptAnotherOccurrence(o) ==
    /\ o_options[o].made
    /\ o_last' = Queried("can_accept_another_occurrence", o,
                         can_accept_another_occurrence(o_options[o]))
    /\ UNCHANGED o_options
    /\ OptionFrame

OptionNext ==
    \/ \E o \in Options, occurrences \in num_occurrences_flag : OConstruct(o, occurrences)
    \/ \E o \in Options, n \in num_occurrences_flag : OSetNumOccurrencesFlag(o, n)
    \/ \E o \in Options : OAddOccurrence(o)
    \/ \E o \in Options : OIsSatisfied(o)
    \/ \E o \in Options : OCanAcceptAnotherOccurrence(o)

(***************************************************************************)
(* Calls of branch::lookup (hamt_map_types.hpp) on a branch of its own, and *)
(* of varint::encode followed by varint::decode (varint.hpp).  Both are    *)
(* functions of their arguments alone: a behaviour makes one call, with    *)
(* arguments drawn from the sets below.                                    *)
(***************************************************************************)
NoPureCall == [op |-> "none", bitmap |-> Zero, children |-> <<>>, hash_index |-> 0,
               child |-> 0, index |-> not_found, x |-> Zero, bytes |-> <<>>, size |-> 0,
               result |-> Zero, skip |-> 0]

CallInit == p_call = NoPureCall /\ RangeLockInit /\ RenameInit /\ ShutdownInit /\ InMemoryInit /\ OptionInit

\* The hash indexes a branch is given children for, which lie at both ends and
\* in the middle of the bitmap, and the bitmaps made of them.  A branch has a
\* child at least (branch::size asserts that the bitmap is not zero).
LookupSlots == {0, 1, 31, 32, 62, 63}
Bitmaps == (SUBSET LookupSlots) \ {Zero}

\* The children of a branch with the given bitmap, held in the order of their
\* hash indexes: the child for hash index s is the leaf at address 4 * (s + 1).
ChildFor(s) == 4 * (s + 1)
ChildrenOf(bitmap) ==
    [i \in 1..Cardinality(bitmap) |->
        ChildFor(CHOOSE s \in bitmap : Cardinality({t \in bitmap : t < s}) = i - 1)]

\* branch::lookup (hash_index) on a branch with the given bitmap.
BLookup(bitmap, hash_index) ==
    LET b == [bitmap |-> bitmap, children |-> ChildrenOf(bitmap)]
        found == branch_lookup(b, hash_index)
    IN  /\ p_call = NoPureCall
        /\ p_call' = [NoPureCall EXCEPT !.op = "lookup", !.bitmap = bitmap,
                                         !.children = b.children, !.hash_index = hash_index,
                                         !.child = found.child, !.index = found.index]
        /\ UNCHANGED <<rangeLockVars, renameVars, lateVars, storeVars, hamtVars, stringVars, mapVars>>

\* The values encoded: zero, the powers of two, the numbers one less than a
\* power of two (2^64 - 1 among them), and the odd numbers with two bits set.
VarintInputs ==
    {Zero} \cup {{n} : n \in AllOnes} \cup {0..n : n \in AllOnes} \cup {{0, n} : n \in AllOnes}

\* varint::encode (x, out), then varint::decode (in) on what was written.
VRoundTrip(x) ==
    LET bytes == encode(x)
        size == decode_size(ByteAt(bytes, 1))
    IN  /\ p_call = NoPureCall
        /\ p_call' = [NoPureCall EXCEPT !.op = "varint", !.x = x, !.bytes = bytes,
                                         !.size = size, !.result = decode(bytes, size)]
        /\ UNCHANGED <<rangeLockVars, renameVars, lateVars, storeVars, hamtVars, stringVars, mapVars>>

\* string_helper::write of a string of the given length, of which the length
\* bytes are kept; then string_helper::read_length on them, and the offset at
\* which get_sstring_view (db, addr, length, owner) takes the characters to be.
SLength(length) ==
    LET bytes == write_length(length)
        read == read_length_from(bytes)
    IN  /\ p_call = NoPureCall
        /\ p_call' = [NoPureCall EXCEPT !.op = "string", !.x = length, !.bytes = bytes,
                                         !.size = read.fetched, !.result = read.length,
                                         !.skip = Max(encoded_size(length), 2)]
        /\ UNCHANGED <<rangeLockVars, renameVars, lateVars, storeVars, hamtVars, stringVars, mapVars>>

CallNext ==
    \/ \E length \in VarintInputs : SLength(length)
    \/ \E bitmap \in Bitmaps, hash_index \in 0..(hash_size - 1) : BLookup(bitmap, hash_index)
    \/ \E x \in VarintInputs : VRoundTrip(x)

Init == StoreInit /\ HamtInit /\ StringsInit /\ StorageInit /\ CallInit

SpecStorage == Init /\ [][StorageNext]_vars

SpecAccess == Init /\ [][AccessNext]_vars
SpecCalls == Init /\ [][CallNext]_vars
SpecRangeLock == Init /\ [][RangeLockNext]_vars
SpecRename == Init /\ [][RenameNext]_vars
SpecShutdown == Init /\ [][ShutdownNext]_vars
SpecInMemory == Init /\ [][InMemoryNext]_vars
SpecOptions == Init /\ [][OptionNext]_vars

SpecStrings == Init /\ [][StringsNext]_vars

Spec == Init /\ [][Next]_vars

HamtNext ==
    \/ \E k \in Keys : HInsert(k)
    \/ HFlush

SpecHamt == Init /\ [][HamtNext]_vars

\* The steps that take a transaction to its end: those of commit(), and the
\* destructor at the end of the transaction's scope.
TxnEnd(p) ==
    \/ CommitFlushIndex(p)
    \/ CommitProtect(p)
    \/ CommitAppendTrailer(p)
    \/ CommitWriteTrailer(p)
    \/ CommitPublish(p)
    \/ CommitRelease(p)
    \/ CommitFail(p)
    \/ Destroy(p)

\* The thread that is in a transaction keeps running to the end of its scope,
\* and the kernel wakes a process that waits for a lock which stays free.
FairSpec ==
    /\ Init
    /\ [][Next]_vars
    /\ \A p \in Procs : WF_vars(TxnEnd(p)) /\ WF_vars(Acquire(p))

(***************************************************************************)
(* Properties.                                                             *)
(***************************************************************************)
InTransaction(p) ==
    pc[p] \in {"open", "flushed", "protected", "appending", "appended", "published", "failed"}

\* C1: at most one writer exists at any time: a process that is in a
\* transaction, from its construction on, owns the writer slot's lock, and no
\* two processes hold it.
C1_SingleWriter ==
    /\ \A p \in Procs : InTransaction(p) => rl_locked[p]
    /\ \A p \in Procs : rl_locked[p] => os_lock = p
    /\ \A p, q \in Procs : rl_locked[p] /\ rl_locked[q] => p = q

C1_Witness ==
    \E p, q \in Procs :
        /\ p # q
        /\ pc[p] = "appending" /\ rl_locked[p] /\ os_lock = p
        /\ pc[q] = "lock_wait"

\* What a reader that has read footer pointer F relies on: the trailer at F is
\* complete, it continues the chain of trailers, and its index and the strings
\* of the index lie below it, in their final form.
IndexComplete(m, root, F) ==
    \/ root = 0
    \/ /\ root < F
       /\ Obj(m, root).kind = "index"
       /\ \A s \in SeqToSet(Obj(m, root).val) :
              /\ s < F
              /\ Obj(m, s).kind = "slot"
              /\ Obj(m, s).val[1] % 2 # in_heap_mask
              /\ Obj(m, s).val[1] < F
              /\ Obj(m, Obj(m, s).val[1]).kind = "body"

RECURSIVE RevisionComplete(_, _)
RevisionComplete(m, F) ==
    LET t == Obj(m, F)
        prev == t.val[T_prev]
    IN  /\ t.kind = "trailer"
        /\ t.val[T_complete] = 1
        /\ IF F = leader_size
           THEN t = InitialTrailer
           ELSE /\ prev >= leader_size
                /\ prev + trailer_size <= F
                /\ t.val[T_size] = F - (prev + trailer_size)
                /\ t.val[T_revision] = Obj(m, prev).val[T_revision] + 1
                /\ IndexComplete(m, t.val[T_names], F)
                /\ RevisionComplete(m, prev)

ReaderSeesCommitted == r_footer # 0 => RevisionComplete(mem, r_footer)

ReaderViewStable ==
    \A a \in DOMAIN mem :
        a <= r_footer => a \in DOMAIN mem' /\ mem'[a] = mem[a]

\* C2: no torn state is visible to a reader: at every moment after it read
\* footer pointer F, the trailer at F and everything below it are completely
\* written, and no step of a writer changes them.
C2_NoTornState == []ReaderSeesCommitted /\ [][ReaderViewStable]_vars

C2_Witness ==
    /\ r_footer > leader_size
    /\ \E p \in Procs : pc[p] = "appending" /\ trailer_at[p] > r_footer

\* C3: every byte below the footer pointer is immutable: no step changes an
\* object that lies at or below the trailer the footer pointer names.
C3_Immutable ==
    [][\A a \in DOMAIN mem :
          a <= footer => a \in DOMAIN mem' /\ mem'[a] = mem[a]]_vars

\* With interned strings below the footer pointer, the running transaction has
\* added a new string and flushed its adder.
C3_Witness ==
    \E p \in Procs :
        /\ pc[p] = "open"
        /\ views_[p] = <<>>
        /\ \E s \in idx[p] : s < footer /\ Obj(mem, s).val[1] % 2 # in_heap_mask
        /\ \E s \in idx[p] : s > footer /\ Obj(mem, s).val[1] % 2 # in_heap_mask

\* C4: the footer pointer never decreases.
C4_FooterAdvances == [][footer' >= footer]_vars

C4_Witness ==
    /\ footer > leader_size
    /\ last_exit[1] = "abandon"
    /\ last_exit[2] > 0

\* C5: commit is atomic under failure: a commit that failed leaves the footer
\* pointer at its value before the transaction, a commit in progress has not
\* changed it, and a commit that ran to completion has stored its trailer's
\* address there (it is there as commit() releases the writer lock).
C5_CommitAtomic ==
    \A p \in Procs :
        /\ pc[p] \in {"flushed", "protected", "appending", "appended", "failed"}
              => footer = footer_before[p]
        /\ pc[p] = "published"
              => footer = trailer_at[p] /\ Obj(mem, footer).val[T_prev] = footer_before[p]

C5_Witness ==
    \E p \in Procs :
        /\ pc[p] = "failed"
        /\ ro_ranges[p] # {}
        /\ logical[p] > first_[p]
        /\ footer = footer_before[p]

\* C6: a transaction dropped without a commit is rolled back: after its
\* destruction the footer pointer and the file size are what they were when
\* it began, whatever it had allocated.
C6_Rollback ==
    [][\A p \in Procs :
          pc[p] \in {"open", "failed"} /\ pc'[p] = "idle"
              => footer' = footer_before[p] /\ file_size' = size_before[p]]_vars

C6_Witness ==
    /\ last_exit[1] \in {"abandon", "error"}
    /\ last_exit[2] > 0
    /\ \A p \in Procs : pc[p] = "idle"
    /\ file_size = PhysicalSize(regions[CHOOSE p \in Procs : logical[p] = footer + trailer_size])

\* C7: the writer lock is released on every exit path: a process whose
\* transaction was destroyed holds no lock, in its range_lock or in the kernel.
C7_LockReleased ==
    \A p \in Procs :
        pc[p] \in {"idle", "lock_wait"} => ~rl_locked[p] /\ os_lock # p

\* After a failed commit, a later writer has the lock.
C7_Witness ==
    /\ last_exit[1] = "error"
    /\ \E p \in Procs : pc[p] = "open" /\ os_lock = p

\* C8: a non-blocking begin made while another process holds the writer lock
\* returns lock_unavailable at once; it acquires nothing and the holder keeps
\* the lock.
C8_NonBlockingFails ==
    [][\A p \in Procs :
          TryBegin(p) /\ os_lock \notin {NoProc, p}
              => /\ begin_result' = <<p, "lock_unavailable">>
                 /\ pc'[p] = "idle"
                 /\ ~rl_locked'[p]
                 /\ os_lock' = os_lock
                 /\ rl_locked'[os_lock] = rl_locked[os_lock]]_vars

C8_Witness ==
    /\ begin_result[2] = "lock_unavailable"
    /\ os_lock \notin {NoProc, begin_result[1]}
    /\ rl_locked[os_lock]
    /\ pc[begin_result[1]] = "idle"

\* C9: a blocking begin made while another process holds the writer lock
\* returns with the lock only once the lock is free, and it does return with
\* the lock.
C9_BlockingCompletes ==
    /\ [][\A p \in Procs :
            pc[p] = "lock_wait" /\ pc'[p] # "lock_wait"
                => os_lock = NoProc /\ os_lock' = p /\ pc'[p] = "open"]_vars
    /\ \A p \in Procs : (pc[p] = "lock_wait") ~> (os_lock = p /\ pc[p] = "open")

C9_Witness ==
    \E p, q \in Procs :
        /\ pc[p] = "lock_wait"
        /\ os_lock = q
        /\ pc[q] = "published"

StoreBranchesKept ==
    \A a \in DOMAIN h_store : a \in DOMAIN h_store' /\ h_store'[a] = h_store[a]

\* C10: no store node is mutated after it is published, and an insert that
\* changes a store-resident branch leaves it to a heap copy: the pointer that
\* replaces the branch is a heap pointer to a new branch of the container.
C10_CopyOnWrite ==
    [][/\ StoreBranchesKept
       /\ (is_branch(h_root) /\ ~is_heap(h_root) /\ h_root' # h_root)
             => is_heap(h_root') /\ Len(h_heap') > Len(h_heap)]_vars

\* A flushed index was inserted into: the root is a heap copy of the branch
\* that is still in the store, with one more key below it.
C10_Witness ==
    /\ is_branch(h_root) /\ is_heap(h_root)
    /\ \E a \in DOMAIN h_store :
          /\ h_store[a].bitmap \subseteq LoadBranch(HS, h_root).bitmap
          /\ h_store[a].children # LoadBranch(HS, h_root).children
          /\ \E i \in DOMAIN h_store[a].children :
                h_store[a].children[i] \in SeqToSet(LoadBranch(HS, h_root).children)

\* The leaf of key k in the current index, or not_found.
LeafOf(k) == hamt_find(HS, h_root, k)

\* C11: insertion is idempotent: an insert of a key that the index holds
\* returns the address of the leaf that holds it with inserted = false, and
\* allocates nothing, writes nothing and does not extend the store; an insert
\* that follows an insert of the same key returns the same leaf address.
C11_InsertIdempotent ==
    [][\A k \in Keys :
          /\ HInsert(k) /\ (\E a \in DOMAIN h_leaves : h_leaves[a] = k)
                => /\ h_last' = <<k, LeafOf(k), FALSE>>
                   /\ h_leaves[LeafOf(k)] = k
                   /\ UNCHANGED <<h_store, h_leaves, h_heap, h_root, h_end>>
          /\ HInsert(k) /\ h_last[1] = k => h_last'[2] = h_last[2]]_vars

\* A key of a flushed index was inserted again, below a store-resident branch:
\* no heap copy was made.
C11_Witness ==
    /\ ~h_last[3]
    /\ h_last[1] \in Keys
    /\ is_branch(h_root) /\ ~is_heap(h_root)
    /\ is_branch(branch_lookup(LoadBranch(HS, h_root), HashIndex(Hash(h_last[1]), 0)).child)
    /\ h_heap = <<>>
    /\ h_revs # <<>>

\* C12: a key inserted in revision R is found in R and in every later
\* revision: find returns a leaf whose key is the key looked for, whatever was
\* inserted since.
C12_FindAfterInsert ==
    \A i \in DOMAIN h_revs : \A j \in DOMAIN h_revs : \A k \in h_revs[i].keys :
        i <= j =>
            LET leaf == hamt_find(HS, h_revs[j].root, k)
            IN  /\ leaf # not_found
                /\ leaf \in DOMAIN h_leaves
                /\ h_leaves[leaf] = k

\* Three revisions; the last holds keys the first does not, at the slot of a
\* key of the first.
C12_Witness ==
    /\ Len(h_revs) >= 3
    /\ \E k \in h_revs[1].keys : \E n \in h_revs[3].keys \ h_revs[1].keys :
          /\ HashIndex(Hash(k), 0) = HashIndex(Hash(n), 0)
          /\ hamt_find(HS, h_revs[3].root, n) # not_found
          /\ hamt_find(HS, h_revs[1].root, n) = not_found

\* The in-store indirect strings of the names index of the revision whose
\* trailer is at F.
RevisionStrings(F) ==
    LET root == Obj(mem, F).val[T_names]
    IN  IF root = 0 THEN {} ELSE SeqToSet(Obj(mem, root).val)

Revisions == {F \in DOMAIN mem : F <= footer /\ Obj(mem, F).kind = "trailer"}

\* The word of the in-store indirect string at s.
Word(m, s) == Obj(m, s).val[1]

\* C13: uniqueness by address after flush: in every committed revision, two
\* indirect strings have different body addresses exactly if the strings read
\* from their bodies differ.
C13_UniqueByAddress ==
    \A F \in Revisions : \A s1, s2 \in RevisionStrings(F) :
        (Word(mem, s1) # Word(mem, s2))
            <=> (get_sstring_view(mem, Word(mem, s1)) # get_sstring_view(mem, Word(mem, s2)))

\* A committed revision holds two strings of different contents, interned by
\* different transactions.
C13_Witness ==
    /\ Obj(mem, footer).val[T_revision] = 2
    /\ \E s1, s2 \in RevisionStrings(footer) :
          /\ s1 < Obj(mem, footer).val[T_prev] /\ s2 > Obj(mem, footer).val[T_prev]
          /\ Word(mem, s1) # Word(mem, s2)
          /\ get_sstring_view(mem, Word(mem, s1)) = StringOf(1)
          /\ get_sstring_view(mem, Word(mem, s2)) = StringOf(2)

\* The step is a flush of the adder of p.
IsFlush(p) == pc[p] = "open" /\ pc'[p] = "open" /\ views_[p] # <<>> /\ views_'[p] = <<>>

\* C14: flush writes, for each remembered entry, the body of the entry's string
\* at a 2-byte aligned address beyond everything written before, and stores
\* that address in the entry's in-store indirect string: after the flush each
\* remembered indirect string holds an even store address, that of its own body.
C14_FlushPatches ==
    [][\A p \in Procs : IsFlush(p) =>
          \A i \in DOMAIN views_[p] :
              LET slot == views_[p][i][2]
                  w == Word(mem', slot)
              IN  /\ w % 2 = 0
                  /\ w >= logical[p]
                  /\ w + Obj(mem', w).size <= logical'[p]
                  /\ Obj(mem', w).kind = "body"
                  /\ Obj(mem', w).val = string_helper_write(HeapDeref(views_[p][i][1]))
                  /\ Obj(mem', slot).kind = "slot"
                  /\ \A j \in DOMAIN views_[p] :
                        i < j => w + Obj(mem', w).size <= Word(mem', views_[p][j][2])]_vars

\* A flush wrote two bodies, and padded between them: the first body has an odd
\* size.
C14_Witness ==
    \E p \in Procs :
        /\ pc[p] = "open" /\ views_[p] = <<>>
        /\ \E s1, s2 \in idx[p] :
              /\ s1 >= first_[p] /\ s2 >= first_[p]
              /\ Word(mem, s1) % 2 = 0 /\ Word(mem, s2) % 2 = 0
              /\ Obj(mem, Word(mem, s1)).size % 2 = 1
              /\ Word(mem, s2) = Word(mem, s1) + Obj(mem, Word(mem, s1)).size + 1

\* C15: the adder remembers the view and the in-store address of the indirect
\* string for every first insertion and for nothing else: an add of a string
\* the index does not hold appends one entry, that of the indirect string just
\* written; an add of a string the index holds writes nothing and leaves the
\* remembered entries as they are.
C15_AdderRemembers ==
    [][\A p \in Procs : \A v \in Views : Add(p, v) =>
          IF \E s \in idx[p] : as_string_view(mem, s) = ViewChars(v)
          THEN /\ views_'[p] = views_[p]
               /\ idx'[p] = idx[p]
               /\ mem' = mem /\ logical'[p] = logical[p]
          ELSE /\ Len(views_'[p]) = Len(views_[p]) + 1
               /\ SubSeq(views_'[p], 1, Len(views_[p])) = views_[p]
               /\ \E a \in idx'[p] \ idx[p] :
                     /\ idx'[p] = idx[p] \cup {a}
                     /\ a \notin DOMAIN mem
                     /\ Word(mem', a) = HeapAddr(v) + in_heap_mask
                     /\ views_'[p][Len(views_'[p])] = <<HeapAddr(v), a>>]_vars

\* One entry is remembered after two adds: the second add was of a string
\* equal to the first, through another view.
C15_Witness ==
    \E p \in Procs :
        /\ pc[p] = "open"
        /\ ops = 2
        /\ Len(views_[p]) = 1
        /\ Cardinality(idx[p]) = 1
        /\ logical[p] = first_[p] + address_size

\* The string that was interned at slot i.
Interned(i) == ViewChars(s_slots[i].view)

\* C16: an interned string reads back byte-identical: for an indirect string
\* that was written and whose body was written and patched, get_sstring_view at
\* the indirect string's address returns the string's characters, and so does
\* get_sstring_view at the address of the body.
C16_RoundTrip ==
    /\ [][\A i \in DOMAIN s_slots :
            SRead(i) /\ Patched(i) /\ ~Bogus(i)
                => s_result'.error = "none" /\ s_result'.view = Interned(i)]_vars
    /\ [](\A i \in DOMAIN s_slots :
            Patched(i) => get_sstring_view(s_db.mem, s_slots[i].body) = Interned(i))

\* Two strings of different lengths were interned; the second was read back.
C16_Witness ==
    /\ Len(s_slots) = 2
    /\ Patched(1) /\ Patched(2)
    /\ Len(Interned(1)) # Len(Interned(2))
    /\ s_result.op = "read" /\ s_result.x = <<"slot", 2>>
    /\ s_result.view = Interned(2)
    /\ s_result.view # <<>>

\* The form of an operand: "a", "b" or "c".
Form(o) ==
    IF OperandValue(o).is_pointer THEN "a"
    ELSE IF OperandValue(o).address % 2 = in_heap_mask THEN "b" ELSE "c"

\* C17: equality of two indirect strings is the comparison of their addresses
\* if both are of form (c), and the comparison of their contents for every
\* other combination of forms.
C17_Equality ==
    [][\A x \in Operands, y \in Operands :
          SEqual(x, y) =>
              s_result'.equal =
                  IF Form(x) = "c" /\ Form(y) = "c"
                  THEN Outcome(OperandValue(x).address = OperandValue(y).address)
                  ELSE Outcome(as_string_view_of(s_db.mem, OperandValue(x))
                                  = as_string_view_of(s_db.mem, OperandValue(y)))]_vars

\* C18: reading an in-store indirect string whose word has its least
\* significant bit set fails with bad_address and returns no string view.
C18_BadAddress ==
    [][\A i \in DOMAIN s_slots :
          SRead(i) /\ Obj(s_db.mem, s_slots[i].addr).val[1] % 2 = 1
              => s_result'.error = "bad_address" /\ s_result'.view = <<>>]_vars

\* A patched indirect string was overwritten with the bogus word, and read.
C18_Witness ==
    /\ s_result.op = "read"
    /\ s_result.error = "bad_address"
    /\ Patched(s_result.x[2]) /\ Bogus(s_result.x[2])

\* The segment with index i lies inside a region of rs.
Mapped(rs, i) ==
    \E k \in DOMAIN rs :
        rs[k].offset <= i * segment_size /\ (i + 1) * segment_size <= RegionEnd(rs[k])

\* C19: after any sequence of map_bytes calls, growing and shrinking, SAT
\* entry i is non-null exactly if the bytes of segment i are mapped, that is lie
\* inside a region of the region list.
C19_SatMapped ==
    \A i \in SatIndex : (g_sat[i] # NullEntry) <=> Mapped(g_regions, i)

\* The storage shrank into the first segment of a region of two segments, which
\* dropped the region after it: both entries of the region that is kept are
\* set, the one beyond the logical size too, and the entries of the dropped
\* region are null.
C19_Witness ==
    /\ Len(g_regions) = 1
    /\ g_regions[1].size = 2 * segment_size
    /\ g_logical < segment_size
    /\ g_dropped # {}
    /\ g_sat[0] # NullEntry /\ g_sat[1] # NullEntry
    /\ g_sat[2] = NullEntry

\* C20: all SAT entries that correspond to a region reference exactly that
\* region: the region of a non-null entry i is the region of the list that
\* holds the bytes of segment i, its value the place of the segment in that
\* region; and no entry references a region that map_bytes has dropped.
C20_SatRegions ==
    /\ [](\A i \in SatIndex : g_sat[i] # NullEntry =>
            \E k \in DOMAIN g_regions :
                /\ g_regions[k].offset <= i * segment_size
                /\ (i + 1) * segment_size <= RegionEnd(g_regions[k])
                /\ g_sat[i].region = g_regions[k].offset
                /\ g_sat[i].value = i * segment_size - g_regions[k].offset)
    /\ [][\A k \in DOMAIN g_regions :
            (\A j \in DOMAIN g_regions' : g_regions'[j] # g_regions[k])
                => \A i \in SatIndex : g_sat'[i].region # g_regions[k].offset]_vars

\* A call dropped a region of two segments and kept a region of two segments:
\* the entries of the kept region reference it, those of the dropped region
\* are null.
C20_Witness ==
    /\ \E r \in g_dropped : r.size = 2 * segment_size /\ r.offset = 2 * segment_size
    /\ Len(g_regions) = 1
    /\ g_regions[1].size = 2 * segment_size
    /\ g_sat[0].region = 0 /\ g_sat[1].region = 0
    /\ g_sat[1].value = segment_size
    /\ g_sat[2] = NullEntry /\ g_sat[3] = NullEntry

\* The region an entry of the table names.
RegionOfEntry(s) == {r \in SeqToSet(g_regions) : r.offset = s.region}

\* C21: after any sequence of region additions and shrinks, the value of every
\* non-null SAT entry lies within the region the entry names: at or after the
\* region's base and before base + size.
C21_ValueInRegion ==
    \A i \in SatIndex :
        g_sat[i] # NullEntry =>
            /\ RegionOfEntry(g_sat[i]) # {}
            /\ \A r \in RegionOfEntry(g_sat[i]) :
                   0 <= g_sat[i].value /\ g_sat[i].value < r.size

\* A region of two segments was added after the first and the storage has
\* shrunk into it since: the entry of its second segment points one segment
\* beyond the region's base.
C21_Witness ==
    /\ Len(g_regions) = 2
    /\ g_regions[2] = [offset |-> segment_size, size |-> 2 * segment_size]
    /\ g_logical <= 2 * segment_size
    /\ g_sat[1] = [value |-> 0, region |-> segment_size]
    /\ g_sat[2] = [value |-> segment_size, region |-> segment_size]

\* The step is a call of map_bytes that shrinks the storage.
IsShrink == g_logical' < g_logical /\ g_logical' <= PhysicalSize(g_regions)

\* Segment i is one of the segments of region r.
SegmentOf(r, i) == r.offset <= i * segment_size /\ i * segment_size < RegionEnd(r)

\* C22: shrink(new_size) drops exactly the regions whose offset is at or
\* beyond new_size and nulls all of their SAT entries; the regions that begin
\* below new_size stay, in their order, and every other SAT entry is unchanged.
C22_ShrinkDrops ==
    [][IsShrink =>
          /\ g_regions' = SelectSeq(g_regions, LAMBDA r : r.offset < g_logical')
          /\ \A i \in SatIndex :
                 IF \E k \in DOMAIN g_regions :
                        g_regions[k].offset >= g_logical' /\ SegmentOf(g_regions[k], i)
                 THEN g_sat'[i] = NullEntry
                 ELSE g_sat'[i] = g_sat[i]]_vars

\* The storage shrank to exactly the end of a region: the region that began
\* at the new size was dropped and the one that ends there is kept, with its
\* entries.
C22_Witness ==
    /\ g_regions # <<>>
    /\ g_logical = PhysicalSize(g_regions)
    /\ \E r \in g_dropped : r.offset = g_logical
    /\ \A i \in SatIndex : SegmentOf(g_regions[Len(g_regions)], i) => g_sat[i] # NullEntry

\* C23: an outstanding shared pointer keeps its memory mapped across shrink:
\* every pointer that address_to_pointer returned and that is not yet released
\* points into a mapped block, also after its region was dropped; a block is
\* unmapped only in a step after which no pointer into it is left, and a block
\* that neither a region nor a pointer holds is not mapped.
C23_ViewsKeepRegions ==
    /\ [](\A p \in g_ptrs : p.block \in g_mapped)
    /\ [](g_mapped = SeqToSet(g_ids) \cup {p.block : p \in g_ptrs})
    /\ [][\A b \in g_mapped \ g_mapped' : \A p \in g_ptrs' : p.block # b]_vars

\* A pointer is held into the block of a region that shrink has dropped: the
\* block is no region's and is still mapped.
C23_Witness ==
    \E p \in g_ptrs :
        /\ p.block \notin SeqToSet(g_ids)
        /\ p.block \in g_mapped
        /\ g_regions # <<>>
        /\ p.at > 0

\* The region boundaries that the bytes [addr, addr + size) straddle.
Boundaries(rs, addr, size) ==
    Cardinality({k \in DOMAIN rs : addr < rs[k].offset /\ rs[k].offset < addr + size})

\* C24: a copy of N bytes whose byte range straddles k region boundaries calls
\* the copier exactly k + 1 times, whatever the start address, N and the
\* layout of the regions.
C24_CopyChunks ==
    g_call.op = "copy" =>
        Len(g_call.chunks) = Boundaries(g_regions, g_call.addr, g_call.size) + 1

\* A copy began a few bytes before the end of the first region and ran over
\* the segment boundary inside the second region, of two segments: two calls.
C24_Witness ==
    /\ g_call.op = "copy"
    /\ Len(g_regions) = 2 /\ g_regions[2].size = 2 * segment_size
    /\ g_call.addr = segment_size - address_size
    /\ g_call.size = segment_size + 2 * address_size
    /\ Len(g_call.chunks) = 2
    /\ g_call.chunks[2] = [region |-> segment_size, at |-> 0, temp |-> address_size,
                            size |-> segment_size + address_size]

\* The index of the region of rs that holds the byte at addr, 0 if none does.
RegionIndex(rs, addr) ==
    IF \E k \in DOMAIN rs : rs[k].offset <= addr /\ addr < RegionEnd(rs[k])
    THEN CHOOSE k \in DOMAIN rs : rs[k].offset <= addr /\ addr < RegionEnd(rs[k])
    ELSE 0

\* C25 as claimed: request_spans_regions (a, n) is true exactly if a and
\* a + n - 1 lie in different regions.
C25_SpansAsClaimed ==
    g_call.op = "spans" =>
        (g_call.spans <=> RegionIndex(g_regions, g_call.addr)
                            # RegionIndex(g_regions, g_call.addr + g_call.size - 1))

\* C25: for n > 0, request_spans_regions (a, n) is true exactly if a and
\* a + n - 1 lie in different regions; for n = 0 it is false.
C25_Spans ==
    g_call.op = "spans" =>
        IF g_call.size = 0 THEN ~g_call.spans
        ELSE (g_call.spans <=> RegionIndex(g_regions, g_call.addr)
                                 # RegionIndex(g_regions, g_call.addr + g_call.size - 1))

\* A request that ends with the last byte of a region does not span; the
\* region after it is mapped.
C25_Witness ==
    /\ g_call.op = "spans"
    /\ g_call.size > 0
    /\ ~g_call.spans
    /\ g_call.addr + g_call.size = RegionEnd(g_regions[1])
    /\ Len(g_regions) > 1

\* Page pg overlaps the bytes [first, last).
PageOverlaps(pg, first, last) == pg * page_size < last /\ first < (pg + 1) * page_size

Pages == 0..((MaxSegments + 1) * (segment_size \div page_size) - 1)

\* C26: protection never covers the header: whatever first and last are given
\* to protect, first = 0 or inside the header included, no page that overlaps
\* the header, which holds the footer-pointer slot, is made read-only.
C26_HeaderWritable ==
    g_call.op = "protect" =>
        \A pg \in read_only(g_call.ranges) : ~PageOverlaps(pg, 0, leader_size)

\* protect was called from address 0 or from inside the header, and made the
\* pages after the first read-only.
C26_Witness ==
    /\ g_call.op = "protect"
    /\ g_call.addr < leader_size
    /\ g_call.last >= 2 * page_size
    /\ 1 \in read_only(g_call.ranges)
    /\ 0 \notin read_only(g_call.ranges)

\* C27: the range made read-only is rounded outward to page boundaries: after
\* protect (first, last) every page that overlaps [first, last) and does not
\* overlap the header is read-only, the pages that hold first and last - 1
\* included when these are not page-aligned.
C27_RoundedOutward ==
    g_call.op = "protect" =>
        \A pg \in Pages :
            PageOverlaps(pg, g_call.addr, g_call.last) /\ ~PageOverlaps(pg, 0, leader_size)
                => pg \in read_only(g_call.ranges)

\* The branches and linear nodes of the index below node, each with its
\* depth: [depth, bitmap, children].
RECURSIVE InternalNodes(_, _, _)
InternalNodes(hs, node, depth) ==
    IF is_empty(node) \/ ~is_branch(node) THEN {}
    ELSE LET b == LoadBranch(hs, node)
         IN  {[depth |-> depth, bitmap |-> b.bitmap, children |-> b.children]}
             \cup UNION {InternalNodes(hs, b.children[i], depth + 1) : i \in DOMAIN b.children}

\* C28: two distinct keys whose full hashes are identical are held by a linear
\* node at the maximum depth: the nodes at depths below the maximum branch
\* depth, which is the hash size over the chunk width rounded up, are
\* branches, and the node beyond them is a linear node with the colliding
\* leaves.
C28_LinearAtMaxDepth ==
    LET nodes == InternalNodes(HS, h_root, 0)
        present == {h_leaves[a] : a \in DOMAIN h_leaves}
    IN  /\ max_branch_depth = (hash_size + hash_index_bits - 1) \div hash_index_bits
        /\ \A x \in nodes :
               IF x.depth < max_branch_depth
               THEN x.bitmap # {} /\ Len(x.children) = pop_count(x.bitmap)
               ELSE x.depth = max_branch_depth /\ x.bitmap = {}
        /\ \A k1 \in present, k2 \in present :
               k1 # k2 /\ Hash(k1) = Hash(k2) =>
                   \E x \in nodes :
                       /\ x.depth = max_branch_depth
                       /\ x.bitmap = {}
                       /\ {k1, k2} \subseteq {h_leaves[x.children[i]] : i \in DOMAIN x.children}

\* Two keys of one hash and a key of another hash were inserted and the index
\* was flushed: the store holds the linear node of the two leaves.
C28_Witness ==
    /\ h_heap = <<>>
    /\ \E a \in DOMAIN h_leaves, b \in DOMAIN h_leaves :
           a # b /\ Hash(h_leaves[a]) = Hash(h_leaves[b])
    /\ \E a \in DOMAIN h_leaves : Hash(h_leaves[a]) # Hash(2)
    /\ \E x \in InternalNodes(HS, h_root, 0) :
           x.depth = max_branch_depth /\ Len(x.children) = 2


\* C29: branch::lookup (k) on a branch returns not_found exactly when bit k of
\* the bitmap is clear; when the bit is set it returns the child held at the
\* array index that is the number of one bits of the bitmap below position k,
\* which is the child that belongs to hash index k.  This holds for the hash
\* indexes 0..63 alike.
C29_Lookup ==
    p_call.op = "lookup" =>
        LET k == p_call.hash_index
            below == {s \in p_call.bitmap : s < k}
        IN  /\ (p_call.index = not_found) <=> (k \notin p_call.bitmap)
            /\ k \in p_call.bitmap =>
                /\ p_call.index = Cardinality(below)
                /\ p_call.child = p_call.children[Cardinality(below) + 1]
                /\ p_call.child = ChildFor(k)

\* A lookup of the topmost hash index in a branch that holds all its children
\* found the last of them.
C29_Witness ==
    /\ p_call.op = "lookup"
    /\ p_call.bitmap = LookupSlots
    /\ p_call.hash_index = hash_size - 1
    /\ p_call.index = Cardinality(LookupSlots) - 1
    /\ p_call.child = ChildFor(hash_size - 1)

\* The number of bytes varint::encode writes for x: one for each seven bits of
\* x, and nine once x needs more than 56 bits.
BytesFor(x) ==
    IF x = Zero THEN 1
    ELSE LET top == CHOOSE i \in x : \A j \in x : j <= i
         IN  IF top >= 56 THEN 9 ELSE (top \div 7) + 1

\* C30: decoding what varint::encode wrote for x gives x back, for zero, for
\* the values at both sides of each change of the byte count, for the values
\* that take the nine byte form and for 2^64 - 1; the byte count read from
\* the first byte is the number of bytes written.
C30_RoundTrip ==
    p_call.op = "varint" =>
        /\ p_call.result = p_call.x
        /\ p_call.size = Len(p_call.bytes)
        /\ Len(p_call.bytes) = BytesFor(p_call.x)
        /\ Len(p_call.bytes) = encoded_size(p_call.x)
        /\ \A i \in DOMAIN p_call.bytes : p_call.bytes[i] \in 0..255

\* 2^64 - 1 was written in the nine byte form and read back.
C30_Witness ==
    /\ p_call.op = "varint"
    /\ p_call.x = AllOnes
    /\ Len(p_call.bytes) = 9
    /\ p_call.bytes[1] = 0
    /\ p_call.result = AllOnes


\* C31: string_helper::write emits two length bytes at least, whatever the
\* length of the string; read_length, which fetches two bytes and then the
\* bytes that decode_size of the first asks for beyond them, reads the length
\* that was written and takes exactly the bytes the writer emitted, and the
\* offset at which the reader that knows the length takes the characters to be
\* is the offset at which the writer put them.
C31_LengthPrefix ==
    p_call.op = "string" =>
        /\ Len(p_call.bytes) >= 2
        /\ p_call.result = p_call.x
        /\ p_call.size = Len(p_call.bytes)
        /\ p_call.skip = Len(p_call.bytes)

\* The length bytes of the empty string, and those of a string of 128
\* characters, were written and read back: two bytes each, the second of the
\* first being the padding.
C31_Witness ==
    /\ p_call.op = "string"
    /\ p_call.x \in {Zero, {7}}
    /\ Len(p_call.bytes) = 2
    /\ p_call.result = p_call.x
    /\ p_call.x = Zero => p_call.bytes = <<1, 0>>


\* The range_lock h holds the lock of range r.
Holds(holders, h, r) ==
    /\ holders[h].alive /\ holders[h].has_file /\ holders[h].locked
    /\ holders[h].range = r

\* C32: a move (construction or assignment from another object) leaves the
\* source without file and unlocked and gives the destination what the source
\* had, while the file keeps the range of a source with a file as it was; a range_lock
\* without file never unlocks the file; a range_lock that holds its range
\* unlocks it in the file, once, when it is unlocked or destroyed.  So a range
\* is locked in the file exactly when one range_lock holds it, no two
\* range_locks have the same range, and the file is never asked to unlock a
\* range that is not locked.
C32_MoveTransfers ==
    /\ [](\A r \in Ranges :
            /\ k_held[r] <=> (\E h \in Holders : Holds(k_holders, h, r))
            /\ \A g, h \in Holders :
                   /\ k_holders[g].alive /\ k_holders[g].has_file /\ k_holders[g].range = r
                   /\ k_holders[h].alive /\ k_holders[h].has_file /\ k_holders[h].range = r
                   => g = h)
    /\ [](~k_last.unheld)
    /\ [][/\ (k_last'.op \in {"move_construct", "move_assign"} /\ k_last'.holder # k_last'.other) =>
               LET d == k_last'.holder
                   src == k_last'.other
               IN  /\ ~k_holders'[src].locked /\ ~k_holders'[src].has_file
                   /\ k_holders'[d].locked = k_holders[src].locked
                   /\ k_holders'[d].has_file = k_holders[src].has_file
                   /\ k_holders'[d].range = k_holders[src].range
                   /\ k_holders[src].has_file =>
                          k_held'[k_holders[src].range] = k_held[k_holders[src].range]
          /\ k_last'.op \in {"unlock", "destroy"} =>
               LET h == k_last'.holder
               IN  /\ ~k_holders[h].has_file => k_last'.file_unlocks = 0 /\ k_held' = k_held
                   /\ \A r \in Ranges : Holds(k_holders, h, r) =>
                          /\ k_last'.file_unlocks = 1 /\ k_last'.unlocked_range = r
                          /\ ~k_held'[r]]_vars

\* A range_lock that took a held lock over by a move has unlocked the range in
\* the file, while the range_lock it took it from is still alive, without file.
C32_Witness ==
    /\ k_last.op \in {"unlock", "destroy"}
    /\ k_last.file_unlocks = 1
    /\ ~k_last.unheld
    /\ \E src \in Holders :
          /\ src # k_last.holder
          /\ k_holders[src].alive /\ ~k_holders[src].has_file
          /\ k_holders[src].range = k_last.unlocked_range
    /\ \A r \in Ranges : ~k_held[r]

\* C33: an unlock that follows an unlock of the same range_lock makes no call
\* of the file's unlock and leaves the range_lock unlocked; the file is never
\* asked to unlock a range that it has not locked.
C33_UnlockIdempotent ==
    /\ (k_last.op = "unlock" /\ k_last.repeated) =>
          /\ k_last.file_unlocks = 0
          /\ ~k_holders[k_last.holder].locked
    /\ k_last.op = "unlock" => ~k_holders[k_last.holder].locked
    /\ ~k_last.unheld

\* A range_lock with a file was unlocked twice in a row.
C33_Witness ==
    /\ k_last.op = "unlock" /\ k_last.repeated
    /\ k_holders[k_last.holder].has_file
    /\ k_last.file_unlocks = 0

\* C37: lock and try_lock on a range_lock that is locked return false, make no
\* call of the file's lock and leave the range_lock locked.
C37_NoRelock ==
    (k_last.op \in {"lock", "try_lock"} /\ k_last.was_locked) =>
        /\ ~k_last.result
        /\ k_last.file_locks = 0
        /\ k_holders[k_last.holder].locked
        /\ k_held[k_holders[k_last.holder].range]

\* try_lock was called on a range_lock that held its range.
C37_Witness ==
    /\ k_last.op = "try_lock" /\ k_last.was_locked
    /\ ~k_last.result
    /\ k_holders[k_last.holder].locked


\* C34 as stated: rename never replaces a file that is at the destination.
C34_NeverReplaces == ~n_last.replaced

\* C34: rename does not replace a destination that is there when renameat2
\* (or renamex_np), linkat or, in the last fallback, faccessat looks at it: the
\* rename then ends without having changed a file or the handle's path, and
\* it returns false, which happens for the error EEXIST only, unless the call
\* failed for another reason, which is raised.  A rename that returns true has
\* given the handle's file the new name and made it the handle's path.  A
\* destination is replaced in one case only: the last fallback, when the file
\* appears after faccessat found none and before renameat.
C34_Rename ==
    /\ [](n_last.replaced => n_last.via = "renameat" /\ n_last.result = "true")
    /\ [][(n_pc # "idle" /\ n_pc' = "idle") =>
            /\ (n_fs[n_new] # 0 /\ n_pc \in {"renameat2", "linkat", "faccessat"}) =>
                  /\ n_last'.result \in {"false", "raised"}
                  /\ n_fs' = n_fs
                  /\ n_path' = n_path
            /\ n_last'.result = "false" =>
                  /\ n_last'.err = EEXIST
                  /\ n_fs[n_new] # 0
                  /\ n_fs' = n_fs
                  /\ n_path' = n_path
            /\ n_last'.result = "raised" =>
                  /\ n_last'.err # EEXIST
                  /\ n_path' = n_path
            /\ n_last'.result = "true" =>
                  /\ n_path' = n_new
                  /\ n_fs'[n_new] = OwnFile]_vars

\* A rename to the path of the other process's file, which fell back to
\* linkat, returned false; the file is still there and the path is as it was.
C34_Witness ==
    /\ n_last.result = "false"
    /\ n_last.via = "linkat"
    /\ n_path = 1
    /\ n_fs[1] = OwnFile
    /\ n_fs[2] = OtherFile


\* The bytes that the calls before the i-th take together.
RECURSIVE SizesBefore(_, _)
SizesBefore(chunks, i) ==
    IF i <= 1 THEN 0 ELSE chunks[i - 1].size + SizesBefore(chunks, i - 1)

\* C35: the calls that copy (addr, size, p, copier) makes of the copier tile
\* the request: each call stays inside one region; the first begins at addr;
\* each later one begins at the base of the region that follows the region of
\* the call before it, which that call ran to the end of; the temp pointer of
\* a call is p advanced by the sizes of the calls before it; the sizes add up
\* to size.
C35_CopyTiles ==
    g_call.op = "copy" =>
        LET c == g_call.chunks
        IN  /\ c # <<>>
            /\ c[1].region + c[1].at = g_call.addr
            /\ \A i \in DOMAIN c :
                  /\ \E k \in DOMAIN g_regions :
                        /\ g_regions[k].offset = c[i].region
                        /\ c[i].at + c[i].size <= g_regions[k].size
                        /\ i > 1 =>
                              /\ k > 1
                              /\ c[i - 1].region = g_regions[k - 1].offset
                              /\ c[i - 1].at + c[i - 1].size = g_regions[k - 1].size
                  /\ i > 1 => c[i].at = 0
                  /\ c[i].temp = SizesBefore(c, i)
            /\ SizesBefore(c, Len(c) + 1) = g_call.size

\* A copy ran over two region boundaries: three calls, the second of which
\* takes a whole region.
C35_Witness ==
    /\ g_call.op = "copy"
    /\ Len(g_call.chunks) = 3
    /\ g_call.chunks[1].at > 0
    /\ g_call.chunks[3].temp = g_call.chunks[1].size + g_call.chunks[2].size
    /\ g_call.chunks[3].size > 0


\* C36: flush forgets every remembered entry, so that a flush made right after
\* it would write nothing: it would leave the store, its size and the mapped
\* regions as they are.  The same holds of a flush made while nothing is
\* remembered, such as the flush of an adder to which nothing was added.
C36_FlushOnce ==
    /\ [][\A p \in Procs : Flush(p) =>
            /\ views_'[p] = <<>>
            /\ LET d == [logical |-> logical'[p], regions |-> regions'[p], sat |-> sat'[p],
                         mem |-> mem', file_size |-> file_size']
               IN  flush(d, views_'[p]) = d]_vars
    /\ [](\A p \in Procs :
            (pc[p] = "open" /\ views_[p] = <<>>) => flush(Db(p), views_[p]) = Db(p))

\* A flush has written the body of a string added in this transaction and
\* nothing was written since: the store ends where the body ends, and nothing
\* is remembered.
C36_Witness ==
    \E p \in Procs :
        /\ pc[p] = "open" /\ views_[p] = <<>>
        /\ \E s \in idx[p] :
              /\ s >= first_[p]
              /\ Word(mem, s) % 2 = 0
              /\ Word(mem, s) + Obj(mem, Word(mem, s)).size = logical[p]


\* The lines shutdown logs when it performs the sequence for a caller that
\* passes, or does not pass, a command processor.
Repeat(x, n) == [i \in 1..n |-> x]
ShutdownSequence(cp) ==
    <<"performing shutdown">>
    \o (IF cp THEN Repeat(read_loop_quit_command, num_read_threads)
                   \o <<command_loop_quit_command>>
              ELSE <<>>)
    \o <<"shutdown requests complete">>
IsPrefix(s, t) == Len(s) <= Len(t) /\ \A i \in 1..Len(s) : s[i] = t[i]
LogOf(log) == [i \in 1..Len(log) |-> log[i].what]

\* C38: the shutdown sequence runs exactly once.  Whatever the callers of
\* shutdown and however their steps interleave, everything logged and pushed
\* is the work of one caller, the one whose exchange found done clear, and is
\* the sequence in order: num_read_threads read-loop quit commands, then one
\* command-loop quit command (when that caller passed a command processor),
\* complete once that caller has returned.  A call that finds done set returns
\* having changed nothing.
C38_ShutdownOnce ==
    /\ [](\A i \in 1..Len(q_log) :
            /\ q_log[i].caller = q_log[1].caller
            /\ IsPrefix(LogOf(q_log), ShutdownSequence(q_cp[q_log[1].caller])))
    /\ []((q_log # <<>>) <=> q_done)
    /\ [](\A c \in Callers :
            (q_log # <<>> /\ q_log[1].caller = c /\ q_pc[c] \in {"returned", "call"})
                => LogOf(q_log) = ShutdownSequence(q_cp[c]))
    /\ [][\A c \in Callers :
            (q_pc[c] = "call" /\ q_pc'[c] # "call" /\ q_done)
                => /\ q_pc'[c] = "returned"
                   /\ UNCHANGED <<q_done, q_queue, q_log>>]_vars
C38_Witness ==
    /\ \A c \in Callers : q_pc[c] = "returned"
    /\ q_calls[QuitThread] = 1
    /\ \E c \in Callers : c # QuitThread /\ q_calls[c] = MaxShutdownCalls
    /\ Len(q_log) = num_read_threads + 3
    /\ q_log[1].caller # QuitThread


\* C39: for an in-memory file 0 <= pos <= eof <= length holds after any
\* sequence of read_buffer, write_buffer, seek and truncate calls, whether
\* a call returns or raises an error.
C39_Extent ==
    m_file.state # "none" =>
        /\ ~ult(m_file.pos, 0)
        /\ ~ugt(m_file.pos, m_file.eof)
        /\ ~ugt(m_file.eof, m_file.length)
C39_Witness ==
    /\ m_file.state = "open"
    /\ m_last.op = "seek"
    /\ m_last.result = "invalid_argument"
    /\ m_file.pos = m_file.eof
    /\ m_file.eof = m_file.length
    /\ m_file.length = MaxBufferLength


\* C40: an option declared one_or_more is satisfied iff it has occurred at
\* least once: is_satisfied returns true after exactly one occurrence (and
\* after more), and false with no occurrence.
C40_OneOrMore ==
    (o_last.op = "is_satisfied" /\ o_last.occurrences_ = "one_or_more")
        => (o_last.result <=> o_last.num_occurrences_ >= 1)

====
